---- MODULE Spec2Model ----
(***************************************************************************)
(* Monetrax: a personal expense tracker.  The storage schema (tables, row  *)
(* level security policies, constraints, triggers) and the data-access     *)
(* hooks of the client are modelled as one state machine.  Every storage   *)
(* request is one statement in its own transaction, so one request is one  *)
(* step; what a hook does between two requests is a step of its own.       *)
(***************************************************************************)
EXTENDS Integers, FiniteSets, Sequences, TLC

VARIABLES
  users,        \* auth.users: the identities that have signed up
  profiles,     \* rows of user_profiles
  categories,   \* rows of categories
  expenses,     \* rows of expenses
  creating,     \* per identity: client sessions that read an empty category
                \* list and are about to insert the starter set
  nextProfile,  \* gen_random_uuid() of user_profiles.id, as a counter
  nextCategory, \* gen_random_uuid() of categories.id, as a counter
  nextExpense,  \* gen_random_uuid() of expenses.id, as a counter
  migrated,     \* the "Remove Default Categories" migration has been applied
  insertingProfile, \* per identity: client sessions that read no profile row
                \* and are about to insert the default profile
  last,         \* the last request: what was asked, what the caller got and,
                \* as history, which expenses a category deletion touched
  local,        \* the state of the hooks of one client session (useCategories,
                \* useExpenses): its user, its lists, its loading flags and
                \* the requests it is waiting for
  manager,      \* the state of the CategoryManager component of that session
  chart         \* what the chart and summary components are given to show
                \* and what they computed from it

\* the variables of the client session
clientVars == <<local, manager, chart>>

vars == <<users, profiles, categories, expenses, creating,
          nextProfile, nextCategory, nextExpense, migrated,
          insertingProfile, last, local, manager, chart>>

-----------------------------------------------------------------------------
(* Bounds of the model *)

\* rows of a starter batch that are inserted (the batch is cut after them)
MaxBatch == 2
\* category ids that can ever be handed out to the rows of one identity
MaxCategoryId == 3
\* the highest of them that addCategory can be handed
MaxAddedId == 1
\* expense ids that can ever be handed out
MaxExpenseId == 1
\* expense ids that can ever be handed out to the client session
MaxSessionExpenseId == 2
\* expenses in a list given to the chart components
MaxChartExpenses == 6
\* client sessions of one identity that can be between the empty read and
\* the insert of the starter set at the same time
MaxTabs == 2

Users == {"u1", "u2"}

\* Ids: gen_random_uuid() never repeats.  A category id is named by the owner
\* of the row it was made for and a per-owner count, an expense id by a count.
CategoryIds == Users \X (1..MaxCategoryId)
ExpenseIds == {<<k>> : k \in 1..MaxExpenseId}

\* SQL NULL, JavaScript null
NULL == <<>>

\* Amounts a caller can pass, in thousandths of the currency unit:
\* 0 and 12.50
Amounts == {0, 12500}

Min(a, b) == IF a < b THEN a ELSE b

-----------------------------------------------------------------------------
(* Starter category sets *)

\* create_default_categories_for_user: the VALUES list of the signup function
SignupCategories ==
  << [name |-> "General",           color |-> "#6B7280", icon |-> "folder",       is_default |-> TRUE],
     [name |-> "Food & Dining",     color |-> "#EF4444", icon |-> "utensils",     is_default |-> FALSE],
     [name |-> "Transportation",    color |-> "#3B82F6", icon |-> "car",          is_default |-> FALSE],
     [name |-> "Shopping",          color |-> "#8B5CF6", icon |-> "shopping-bag", is_default |-> FALSE],
     [name |-> "Entertainment",     color |-> "#10B981", icon |-> "gamepad-2",    is_default |-> FALSE],
     [name |-> "Bills & Utilities", color |-> "#F59E0B", icon |-> "home",         is_default |-> FALSE],
     [name |-> "Healthcare",        color |-> "#EC4899", icon |-> "heart",        is_default |-> FALSE],
     [name |-> "Education",         color |-> "#14B8A6", icon |-> "book",         is_default |-> FALSE] >>

\* A starter set whose flagged entry is not "General".
defaultCategoriesFoodFlagged ==
  << [name |-> "General",           color |-> "#6B7280", icon |-> "folder",       is_default |-> FALSE],
     [name |-> "Food & Dining",     color |-> "#EF4444", icon |-> "utensils",     is_default |-> TRUE] >>

\* createDefaultCategories: the defaultCategories array of the client
defaultCategories ==
  << [name |-> "General",           color |-> "#6B7280", icon |-> "folder",       is_default |-> TRUE],
     [name |-> "Food & Dining",     color |-> "#EF4444", icon |-> "utensils",     is_default |-> FALSE],
     [name |-> "Transportation",    color |-> "#3B82F6", icon |-> "car",          is_default |-> FALSE],
     [name |-> "Shopping",          color |-> "#8B5CF6", icon |-> "shopping-bag", is_default |-> FALSE],
     [name |-> "Entertainment",     color |-> "#10B981", icon |-> "gamepad-2",    is_default |-> FALSE],
     [name |-> "Bills & Utilities", color |-> "#F59E0B", icon |-> "home",         is_default |-> FALSE] >>

\* The rows of a batch that the model inserts: the first MaxBatch of them.
Batch(list) == SubSeq(list, 1, Min(Len(list), MaxBatch))

-----------------------------------------------------------------------------
(* Errors a storage request can end with *)

NoError == "none"
\* new row violates row-level security policy (authorization-denied)
RlsViolation == "rls_violation"
\* RAISE EXCEPTION 'Cannot delete default category' (default-category-protected)
ProtectedDefault == "protected_default"
\* CHECK (amount > 0)
CheckViolation == "check_violation"
\* categories_user_default_unique_idx, user_profiles.user_id UNIQUE
UniqueViolation == "unique_violation"
\* fk_expenses_category_id
ForeignKeyViolation == "foreign_key_violation"
\* the request did not reach storage (network failure)
TransientFailure == "transient"

Errors == {NoError, RlsViolation, ProtectedDefault, CheckViolation,
           UniqueViolation, ForeignKeyViolation, TransientFailure}

\* What a statement on categories and expenses leaves behind.
Result(err, cats, exps) == [error |-> err, categories |-> cats, expenses |-> exps]

-----------------------------------------------------------------------------
(* Row level security policies; uid is auth.uid() of the request *)

categories_select_policy(uid, row) == uid = row.user_id

categories_insert_policy(uid, row) == uid = row.user_id

categories_update_policy(uid, row) == uid = row.user_id

\* is_default is never NULL in a stored row: every insert of the repository
\* gives it a value, so "is_default IS NULL" selects nothing.
categories_delete_policy(uid, row) ==
  uid = row.user_id /\ row.is_default = FALSE

expenses_select_policy(uid, row) == uid = row.user_id

expenses_insert_policy(uid, row) == uid = row.user_id

expenses_update_policy(uid, row) == uid = row.user_id

expenses_delete_policy(uid, row) == uid = row.user_id

user_profiles_select_policy(uid, row) == uid = row.user_id

user_profiles_insert_policy(uid, row) == uid = row.user_id

user_profiles_update_policy(uid, row) == uid = row.user_id

-----------------------------------------------------------------------------
(* Constraints *)

\* A schema without the partial unique index: any set of rows passes.
categories_without_default_index(cats) == TRUE

\* CREATE UNIQUE INDEX ... ON categories (user_id) WHERE is_default = true
categories_user_default_unique_idx(cats) ==
  \A c1, c2 \in cats :
    (c1.user_id = c2.user_id /\ c1.is_default /\ c2.is_default) => c1.id = c2.id

\* A user_profiles table whose user_id is not UNIQUE.
user_id_not_unique(profs) == TRUE

\* user_profiles.user_id ... UNIQUE
user_profiles_user_id_key(profs) ==
  \A p1, p2 \in profs : p1.user_id = p2.user_id => p1.id = p2.id

\* amount decimal(12,2): a number sent by a caller (in thousandths) is rounded
\* to two decimals, half away from zero; the stored amount is in hundredths.
ToDecimal2(x) ==
  IF x >= 0 THEN (x + 5) \div 10 ELSE -((5 - x) \div 10)

\* A weaker check, CHECK (amount >= 0).
amount_not_negative(amount) == amount >= 0

\* CHECK (amount > 0), on the stored value
expenses_amount_check(amount) == amount > 0

\* A schema without the foreign key: any category_id passes.
category_id_unchecked(cats, category_id) == TRUE

\* CONSTRAINT fk_expenses_category_id FOREIGN KEY (category_id)
\* REFERENCES categories(id): the check of an insert or update.  The check
\* reads categories without row level security.
fk_expenses_category_id(cats, category_id) ==
  \E c \in cats : c.id = category_id

\* A foreign key whose delete action leaves the referencing rows in place.
fk_expenses_category_id_keeping_rows(exps, removed) == exps

\* ... ON DELETE CASCADE: what is left of expenses when the categories with
\* these ids are removed.
fk_expenses_category_id_cascade(exps, removed) ==
  {e \in exps : e.category_id \notin removed}

-----------------------------------------------------------------------------
(* The category deletion trigger *)

\* SELECT id INTO default_category_id FROM categories
\* WHERE user_id = OLD.user_id AND is_default = true LIMIT 1
SelectDefaultCategoryId(cats, uid) ==
  LET found == {c.id : c \in {d \in cats : d.user_id = uid /\ d.is_default}}
  IN  IF found = {} THEN NULL ELSE CHOOSE id \in found : TRUE

\* A trigger function whose UPDATE has no WHERE clause: it moves every expense.
handle_category_deletion_update_all(cats, exps, old) ==
  IF old.is_default = TRUE
  THEN [raise |-> TRUE, returns_old |-> FALSE, expenses |-> exps]
  ELSE LET default_category_id == SelectDefaultCategoryId(cats, old.user_id)
       IN  [raise |-> FALSE,
            returns_old |-> TRUE,
            expenses |->
              IF default_category_id # NULL
              THEN {[e EXCEPT !.category_id = default_category_id] : e \in exps}
              ELSE exps]

\* A trigger function that moves the expenses and then ends with RETURN NULL,
\* which skips the deletion of the row.
handle_category_deletion_return_null(cats, exps, old) ==
  LET default_category_id == SelectDefaultCategoryId(cats, old.user_id)
  IN  [raise |-> FALSE,
       returns_old |-> FALSE,
       expenses |->
         IF default_category_id # NULL
         THEN {IF e.category_id = old.id
               THEN [e EXCEPT !.category_id = default_category_id]
               ELSE e : e \in exps}
         ELSE exps]

\* handle_category_deletion(), SECURITY DEFINER: its UPDATE is not filtered by
\* row level security.  raise: the exception aborts the statement; returns_old:
\* RETURN OLD lets the deletion of the row go on.
handle_category_deletion(cats, exps, old) ==
  IF old.is_default = TRUE
  THEN [raise |-> TRUE, returns_old |-> FALSE, expenses |-> exps]
  ELSE LET default_category_id == SelectDefaultCategoryId(cats, old.user_id)
       IN  [raise |-> FALSE,
            returns_old |-> TRUE,
            expenses |->
              IF default_category_id # NULL
              THEN {IF e.category_id = old.id
                    THEN [e EXCEPT !.category_id = default_category_id]
                    ELSE e : e \in exps}
              ELSE exps]

\* category_deletion_trigger BEFORE DELETE ON categories FOR EACH ROW, and the
\* deletion of the row with its ON DELETE CASCADE, all in the transaction of
\* the deleting statement.
DeleteCategoryRow(cats, exps, old) ==
  LET t == handle_category_deletion(cats, exps, old)
  IN  IF t.raise THEN Result(ProtectedDefault, cats, exps)
      ELSE IF ~t.returns_old THEN Result(NoError, cats, t.expenses)
      ELSE Result(NoError, cats \ {old},
                  fk_expenses_category_id_cascade(t.expenses, {old.id}))

-----------------------------------------------------------------------------
(* Statements, as a request of identity uid runs them *)

\* PGRST116: .single() when the statement returned no row (not-found)
NotFound == "not_found"

\* An insert that is not all or nothing: it stores the rows of the batch that
\* do not carry a second default and reports the violation of the others.
InsertCategoriesRowByRow(cats, exps, uid, rows, firstId) ==
  LET new == {[id         |-> <<rows[i].user_id, firstId + i - 1>>,
               user_id    |-> rows[i].user_id,
               name       |-> rows[i].name,
               color      |-> rows[i].color,
               icon       |-> rows[i].icon,
               is_default |-> rows[i].is_default] : i \in 1..Len(rows)}
      kept == {r \in new : categories_user_default_unique_idx(cats \cup {r})}
  IN  IF \E r \in new : ~categories_insert_policy(uid, r)
      THEN Result(RlsViolation, cats, exps)
      ELSE Result(IF kept = new THEN NoError ELSE UniqueViolation,
                  cats \cup kept, exps)

\* INSERT INTO categories, one row or a batch; rows is a sequence of rows
\* without id, firstId the count of the first id.  A statement is all or
\* nothing.
InsertCategories(cats, exps, uid, rows, firstId) ==
  LET new == {[id         |-> <<rows[i].user_id, firstId + i - 1>>,
               user_id    |-> rows[i].user_id,
               name       |-> rows[i].name,
               color      |-> rows[i].color,
               icon       |-> rows[i].icon,
               is_default |-> rows[i].is_default] : i \in 1..Len(rows)}
  IN  IF \E r \in new : ~categories_insert_policy(uid, r)
      THEN Result(RlsViolation, cats, exps)
      ELSE IF ~categories_user_default_unique_idx(cats \cup new)
      THEN Result(UniqueViolation, cats, exps)
      ELSE Result(NoError, cats \cup new, exps)

\* UPDATE categories SET <updates> WHERE user_id = userId: the update without
\* the filter on the id.
UpdateCategoriesOfUser(cats, exps, uid, categoryId, userId, updates) ==
  LET rows == {c \in cats : c.user_id = userId /\ categories_update_policy(uid, c)}
      set(c) == [c EXCEPT
                   !.name  = IF "name"  \in DOMAIN updates THEN updates.name  ELSE @,
                   !.color = IF "color" \in DOMAIN updates THEN updates.color ELSE @]
  IN  IF rows = {} THEN Result(NotFound, cats, exps)
      ELSE Result(NoError, (cats \ rows) \cup {set(c) : c \in rows}, exps)

\* UPDATE categories SET <updates> WHERE id = categoryId AND user_id = userId,
\* then .select().single()
UpdateCategories(cats, exps, uid, categoryId, userId, updates) ==
  LET rows == {c \in cats : c.id = categoryId /\ c.user_id = userId
                            /\ categories_update_policy(uid, c)}
      set(c) == [c EXCEPT
                   !.name  = IF "name"  \in DOMAIN updates THEN updates.name  ELSE @,
                   !.color = IF "color" \in DOMAIN updates THEN updates.color ELSE @]
  IN  IF rows = {} THEN Result(NotFound, cats, exps)
      ELSE IF \E c \in rows : ~categories_update_policy(uid, set(c))
      THEN Result(RlsViolation, cats, exps)
      ELSE Result(NoError, (cats \ rows) \cup {set(c) : c \in rows}, exps)

\* DELETE FROM categories WHERE id = categoryId AND user_id = userId.
\* The policy filters the rows the statement sees; a row it does not see is
\* not deleted, its trigger does not fire and no error is raised.
DeleteCategories(cats, exps, uid, categoryId, userId) ==
  LET rows == {c \in cats : c.id = categoryId /\ c.user_id = userId
                            /\ categories_delete_policy(uid, c)}
  IN  IF rows = {} THEN Result(NoError, cats, exps)
      ELSE DeleteCategoryRow(cats, exps, CHOOSE c \in rows : TRUE)

\* INSERT INTO expenses, then .select().single().  The policy is checked
\* first, then the CHECK constraint, then the foreign key.
InsertExpense(cats, exps, uid, row, id) ==
  LET new == [id          |-> id,
              user_id     |-> row.user_id,
              category_id |-> row.category_id,
              amount      |-> ToDecimal2(row.amount),
              date        |-> row.date]
  IN  IF ~expenses_insert_policy(uid, new) THEN Result(RlsViolation, cats, exps)
      ELSE IF ~expenses_amount_check(new.amount) THEN Result(CheckViolation, cats, exps)
      ELSE IF ~fk_expenses_category_id(cats, new.category_id)
      THEN Result(ForeignKeyViolation, cats, exps)
      ELSE Result(NoError, cats, exps \cup {new})

\* UPDATE expenses SET category_id, amount, ... WHERE id = expenseId
UpdateExpenses(cats, exps, uid, expenseId, category_id, amount) ==
  LET rows == {e \in exps : e.id = expenseId /\ expenses_update_policy(uid, e)}
      set(e) == [e EXCEPT !.category_id = category_id,
                          !.amount = ToDecimal2(amount)]
  IN  IF rows = {} THEN Result(NoError, cats, exps)
      ELSE IF \E e \in rows : ~expenses_update_policy(uid, set(e))
      THEN Result(RlsViolation, cats, exps)
      ELSE IF \E e \in rows : ~expenses_amount_check(set(e).amount)
      THEN Result(CheckViolation, cats, exps)
      ELSE IF \E e \in rows : ~fk_expenses_category_id(cats, set(e).category_id)
      THEN Result(ForeignKeyViolation, cats, exps)
      ELSE Result(NoError, cats, (exps \ rows) \cup {set(e) : e \in rows})

\* DELETE FROM expenses WHERE id = expenseId
DeleteExpenseById(cats, exps, uid, expenseId) ==
  Result(NoError, cats,
         {e \in exps : ~(e.id = expenseId /\ expenses_delete_policy(uid, e))})

\* DELETE FROM expenses WHERE user_id = userId: the delete without the filter
\* on the category.
DeleteExpensesOfUser(cats, exps, uid, categoryId, userId) ==
  Result(NoError, cats,
         {e \in exps : ~(e.user_id = userId /\ expenses_delete_policy(uid, e))})

\* DELETE FROM expenses WHERE category_id = categoryId AND user_id = userId
DeleteExpensesOfCategory(cats, exps, uid, categoryId, userId) ==
  Result(NoError, cats,
         {e \in exps : ~(e.category_id = categoryId /\ e.user_id = userId
                         /\ expenses_delete_policy(uid, e))})

\* What the caller of a request can get: the answer of storage, or a
\* transient failure that leaves storage as it was.
Answers(res) == {res, Result(TransientFailure, categories, expenses)}

-----------------------------------------------------------------------------

(* Inputs of the operations *)

\* What the add form of the category manager passes to addCategory.
NewCategories == {[name |-> "Travel", color |-> "#06B6D4", icon |-> "shopping-bag"]}

\* What the edit form of the category manager passes to updateCategory.
CategoryUpdates == {[name |-> "Misc", color |-> "#DC2626"]}

\* What the signup functions can meet: each of the two inserts goes through,
\* or raises (and its handler turns the exception into a warning).
SignupOutcomes == {[profile_ok |-> TRUE, categories_ok |-> TRUE],
                   [profile_ok |-> TRUE, categories_ok |-> FALSE]}

\* new Date().toISOString().split('T')[0]: the date the expense form presets,
\* as year, month, day
Today == <<2025, 6, 12>>

\* JavaScript numbers: NaN, or a value in thousandths.
NaN == [nan |-> TRUE, value |-> 0]
Number(v) == [nan |-> FALSE, value |-> v]

\* Texts of the amount field of the expense form
FormTexts == {"", "-5", "0", "0.004", "12.50"}

\* parseFloat on these texts
parseFloat(text) ==
  CASE text = ""      -> NaN
    [] text = "-5"    -> Number(-5000)
    [] text = "0"     -> Number(0)
    [] text = "0.004" -> Number(4)
    [] text = "12.50" -> Number(12500)

\* amount > 0 in JavaScript: false for NaN
GreaterThanZero(n) == ~n.nan /\ n.value > 0

\* The rows of a starter batch, each with user_id set.
StarterRows(list, uid) ==
  [i \in 1..Len(Batch(list)) |->
     [user_id    |-> uid,
      name       |-> Batch(list)[i].name,
      color      |-> Batch(list)[i].color,
      icon       |-> Batch(list)[i].icon,
      is_default |-> Batch(list)[i].is_default]]

-----------------------------------------------------------------------------
(* Initial state: an empty database, nobody signed up *)

\* The form did not call the hook.
NotSubmitted == "not_submitted"

\* The hook operations whose catch block ends with "throw error"; the others
\* log the error and resolve.
Rethrows(op) == op \in {"updateCategory", "deleteCategory", "clearCategoryExpenses"}

\* thrown: the call rejected, its caller got the error.  removed, reassigned,
\* cascaded (history): the ids of the categories that the statement of a
\* category deletion removed, and of the expenses that it moved to another
\* category and removed.
Outcome(op, result) ==
  [op |-> op, result |-> result,
   thrown |-> Rethrows(op) /\ result # NoError,
   removed |-> {}, reassigned |-> {}, cascaded |-> {}]

\* The identity of the client session (useAuth().user once signed in), and
\* the user of a session nobody is signed in to.
ClientUser == "u1"
NoUser == "null"

\* No App handler has run yet.
NoHandler == "none"

\* useState of useCategories and useExpenses before a user is there: empty
\* lists, both loading flags true.  fetching: the requests of the effects and
\* of refetchExpenses that are in flight; handler: the App handler that ran
\* last; awaiting: it waits for refetchExpenses; failed: a request of it
\* failed.
LocalInit ==
  [user              |-> NoUser,
   categories        |-> <<>>,
   expenses          |-> <<>>,
   categoriesLoading |-> TRUE,
   expensesLoading   |-> TRUE,
   fetching          |-> {},
   handler           |-> NoHandler,
   awaiting          |-> FALSE,
   failed            |-> FALSE]

\* CATEGORY_ICONS[0]
FirstIcon == "shopping-bag"

\* useState of CategoryManager.  editingCategory is the empty list (null) or
\* the list of the one category being edited.  passed (history): the calls of
\* onAddCategory and onUpdateCategory made by the last action.
ManagerInit ==
  [showForm        |-> FALSE,
   editingCategory |-> <<>>,
   newCategory     |-> [name |-> "", color |-> "", icon |-> FirstIcon],
   editForm        |-> [name |-> "", color |-> ""],
   passed          |-> <<>>]

\* The props of the chart components and (rendered) what the component
\* rendered last computed from them; nothing yet.
ChartInit ==
  [expenses |-> <<>>, categories |-> <<>>, rendered |-> <<>>]

Init ==
  /\ local = LocalInit
  /\ manager = ManagerInit
  /\ chart = ChartInit
  /\ users = {}
  /\ profiles = {}
  /\ categories = {}
  /\ expenses = {}
  /\ creating = [u \in Users |-> 0]
  /\ nextProfile = [u \in Users |-> 1]
  /\ nextCategory = [u \in Users |-> 1]
  /\ nextExpense = 1
  /\ migrated = FALSE
  /\ insertingProfile = [u \in Users |-> 0]
  /\ last = Outcome("init", NoError)

-----------------------------------------------------------------------------
(* Signup: the trigger on auth.users *)

\* A function that replaces the profile of the identity by the default one.
create_default_user_profile_replacing(profs, user_uuid, id, ok) ==
  IF ~ok
  THEN profs
  ELSE {q \in profs : q.user_id # user_uuid}
         \cup {[id |-> <<user_uuid, id>>, user_id |-> user_uuid,
                 currency_code |-> "USD", currency |-> "$"]}

\* create_default_user_profile(user_uuid): INSERT ... ON CONFLICT (user_id)
\* DO NOTHING; ok = FALSE: the insert raised, the handler turned it into a
\* warning and the function changed nothing.
create_default_user_profile(profs, user_uuid, id, ok) ==
  IF ~ok \/ (\E p \in profs : p.user_id = user_uuid)
  THEN profs
  ELSE profs \cup {[id |-> <<user_uuid, id>>, user_id |-> user_uuid,
                    currency_code |-> "USD", currency |-> "$"]}

\* create_default_categories_for_user(user_uuid), SECURITY DEFINER: the batch
\* is inserted as the owner of the function, whom the policies let through; an
\* exception (a constraint, or ok = FALSE) becomes a warning and the function
\* changes nothing.
create_default_categories_for_user(cats, user_uuid, firstId, ok) ==
  LET res == InsertCategories(cats, {}, user_uuid,
                              StarterRows(SignupCategories, user_uuid), firstId)
  IN  IF ok /\ res.error = NoError THEN res.categories ELSE cats

\* handle_new_user(), SECURITY DEFINER, with its EXCEPTION WHEN OTHERS handler:
\* both functions are performed, each turns its own failure into a warning,
\* and the trigger function returns NEW (new_id is NEW.id).  raise: the exception that would
\* abort the insert on auth.users.
handle_new_user(profs, cats, new_id, profileId, firstId, o) ==
  [raise      |-> FALSE,
   profiles   |-> create_default_user_profile(profs, new_id, profileId, o.profile_ok),
   categories |-> create_default_categories_for_user(cats, new_id, firstId,
                                                     o.categories_ok)]

\* handle_new_user() of the "Complete Fresh Database Schema" migration: neither
\* the trigger function nor the two functions it performs have an exception
\* handler, so a failure of either insert is raised to the insert on
\* auth.users.
handle_new_user_unhandled(profs, cats, new_id, profileId, firstId, o) ==
  IF o.profile_ok /\ o.categories_ok
  THEN [raise      |-> FALSE,
        profiles   |-> create_default_user_profile(profs, new_id, profileId, TRUE),
        categories |-> create_default_categories_for_user(cats, new_id, firstId, TRUE)]
  ELSE [raise |-> TRUE, profiles |-> profs, categories |-> cats]

\* The insert on auth.users was aborted by its trigger.
SignupAborted == "signup_aborted"

\* INSERT INTO auth.users with the trigger on_auth_user_created AFTER INSERT
\* FOR EACH ROW; t is what the trigger function did.  An exception of the
\* trigger aborts the statement: no identity, no profile, no category.
InsertAuthUser(u, t) ==
  /\ users' = IF t.raise THEN users ELSE users \cup {u}
  /\ profiles' = IF t.raise THEN profiles ELSE t.profiles
  /\ categories' = IF t.raise THEN categories ELSE t.categories
  /\ nextProfile' = [nextProfile EXCEPT ![u] =
                       IF profiles' # profiles THEN @ + 1 ELSE @]
  /\ nextCategory' = [nextCategory EXCEPT ![u] =
                        @ + Cardinality(categories') - Cardinality(categories)]
  /\ last' = Outcome("signup", IF t.raise THEN SignupAborted ELSE NoError)
  /\ UNCHANGED <<expenses, creating, nextExpense, migrated,
                 insertingProfile, clientVars>>

\* A signup where the profile is created
SignUp(u) ==
  /\ u \notin users
  /\ nextCategory[u] + Len(Batch(SignupCategories)) - 1 <= MaxCategoryId
  /\ \E o \in SignupOutcomes :
       InsertAuthUser(u, handle_new_user(profiles, categories, u,
                                         nextProfile[u], nextCategory[u], o))

\* What the two inserts of the signup functions can meet, in full.
ProvisioningOutcomes == [profile_ok : BOOLEAN, categories_ok : BOOLEAN]

\* A signup, whatever its two inserts meet
on_auth_user_created(u) ==
  /\ u \notin users
  /\ nextCategory[u] + Len(Batch(SignupCategories)) - 1 <= MaxCategoryId
  /\ \E o \in ProvisioningOutcomes :
       InsertAuthUser(u, handle_new_user(profiles, categories, u,
                                         nextProfile[u], nextCategory[u], o))

\* A signup under the "Complete Fresh Database Schema" migration
on_auth_user_created_unhandled(u) ==
  /\ u \notin users
  /\ nextCategory[u] + Len(Batch(SignupCategories)) - 1 <= MaxCategoryId
  /\ \E o \in ProvisioningOutcomes :
       InsertAuthUser(u, handle_new_user_unhandled(profiles, categories, u,
                                                   nextProfile[u], nextCategory[u], o))

-----------------------------------------------------------------------------
(* useUserProfile *)

\* INSERT INTO user_profiles, then .select().single()
InsertProfile(profs, uid, row, id) ==
  LET new == [id |-> <<row.user_id, id>>, user_id |-> row.user_id,
              currency_code |-> row.currency_code, currency |-> row.currency]
  IN  IF ~user_profiles_insert_policy(uid, new)
      THEN [error |-> RlsViolation, profiles |-> profs]
      ELSE IF ~user_profiles_user_id_key(profs \cup {new})
      THEN [error |-> UniqueViolation, profiles |-> profs]
      ELSE [error |-> NoError, profiles |-> profs \cup {new}]

\* UPDATE user_profiles SET <updates> WHERE user_id = userId, then
\* .select().single()
UpdateProfiles(profs, uid, userId, updates) ==
  LET rows == {q \in profs : q.user_id = userId /\ user_profiles_update_policy(uid, q)}
      set(q) == [q EXCEPT !.currency_code = updates.currency_code,
                          !.currency = updates.currency]
  IN  IF rows = {} THEN [error |-> NotFound, profiles |-> profs]
      ELSE IF \E q \in rows : ~user_profiles_update_policy(uid, set(q))
      THEN [error |-> RlsViolation, profiles |-> profs]
      ELSE [error |-> NoError, profiles |-> (profs \ rows) \cup {set(q) : q \in rows}]

\* What the settings dialog passes to updateProfile.
ProfileUpdates == {[currency_code |-> "CHF", currency |-> "CHF"]}

\* fetchProfile: the insert of defaultProfile
insertDefaultProfileRequest(u) ==
  InsertProfile(profiles, u,
                [user_id |-> u, currency_code |-> "USD", currency |-> "$"],
                nextProfile[u])

updateProfileRequest(u, updates) == UpdateProfiles(profiles, u, u, updates)

\* fetchProfile, up to its branch on data: the select with .single().  An
\* error other than PGRST116 is thrown and logged; with no row the session
\* goes on to insert the default profile.
fetchProfile(u) ==
  /\ u \in users
  /\ \E failed \in BOOLEAN :
       LET data == {q \in profiles : q.user_id = u /\ user_profiles_select_policy(u, q)}
       IN  /\ insertingProfile' =
                IF ~failed /\ data = {} /\ insertingProfile[u] < MaxTabs
                THEN [insertingProfile EXCEPT ![u] = @ + 1]
                ELSE insertingProfile
           /\ last' = Outcome("fetchProfile",
                              IF failed THEN TransientFailure ELSE NoError)
  /\ UNCHANGED <<users, profiles, categories, expenses, creating,
                 nextProfile, nextCategory, nextExpense, migrated, clientVars>>

\* fetchProfile, its else branch: the insert of the default profile
fetchProfileInsert(u) ==
  /\ u \in users
  /\ insertingProfile[u] > 0
  /\ \E res \in {insertDefaultProfileRequest(u),
                 [error |-> TransientFailure, profiles |-> profiles]} :
       /\ profiles' = res.profiles
       /\ nextProfile' = [nextProfile EXCEPT ![u] =
                            IF res.error = NoError THEN @ + 1 ELSE @]
       /\ last' = Outcome("fetchProfile", res.error)
  /\ insertingProfile' = [insertingProfile EXCEPT ![u] = @ - 1]
  /\ UNCHANGED <<users, categories, expenses, creating,
                 nextCategory, nextExpense, migrated, clientVars>>

\* updateProfile(updates); it returns at once when no profile is loaded
updateProfile(u, updates) ==
  /\ u \in users
  /\ \E q \in profiles : q.user_id = u
  /\ \E res \in {updateProfileRequest(u, updates),
                 [error |-> TransientFailure, profiles |-> profiles]} :
       /\ profiles' = res.profiles
       /\ last' = Outcome("updateProfile", res.error)
  /\ UNCHANGED <<users, categories, expenses, creating, nextProfile,
                 nextCategory, nextExpense, migrated, insertingProfile, clientVars>>

-----------------------------------------------------------------------------
(* useCategories: the request of each operation, then the operation *)

createDefaultCategoriesRequest(u) ==
  InsertCategories(categories, expenses, u,
                   StarterRows(defaultCategories, u), nextCategory[u])

\* is_default is always false
addCategoryRequest(u, categoryData) ==
  InsertCategories(categories, expenses, u,
                   << [user_id    |-> u,
                       name       |-> categoryData.name,
                       color      |-> categoryData.color,
                       icon       |-> categoryData.icon,
                       is_default |-> FALSE] >>,
                   nextCategory[u])

updateCategoryRequest(u, categoryId, updates) ==
  UpdateCategories(categories, expenses, u, categoryId, u, updates)

deleteCategoryRequest(u, categoryId) ==
  DeleteCategories(categories, expenses, u, categoryId, u)

clearCategoryExpensesRequest(u, categoryId) ==
  DeleteExpensesOfCategory(categories, expenses, u, categoryId, u)

\* fetchCategories: the select, and the branch on an empty result.  The
\* session that read no row goes on to createDefaultCategories.
fetchCategories(u) ==
  /\ u \in users
  /\ \E failed \in BOOLEAN :
       LET data == {c \in categories : c.user_id = u /\ categories_select_policy(u, c)}
       IN  /\ creating' = IF ~failed /\ data = {} /\ creating[u] < MaxTabs
                          THEN [creating EXCEPT ![u] = @ + 1]
                          ELSE creating
           /\ last' = Outcome("fetchCategories",
                              IF failed THEN TransientFailure ELSE NoError)
  /\ UNCHANGED <<users, profiles, categories, expenses,
                 nextProfile, nextCategory, nextExpense, migrated,
                 insertingProfile, clientVars>>

\* createDefaultCategories: one insert of the whole starter set
createDefaultCategories(u) ==
  /\ u \in users
  /\ creating[u] > 0
  /\ createDefaultCategoriesRequest(u).error = NoError
       => nextCategory[u] + Len(Batch(defaultCategories)) - 1 <= MaxCategoryId
  /\ \E res \in Answers(createDefaultCategoriesRequest(u)) :
       /\ categories' = res.categories
       /\ nextCategory' = [nextCategory EXCEPT ![u] =
                             IF res.error = NoError
                             THEN @ + Len(Batch(defaultCategories)) ELSE @]
       /\ last' = Outcome("createDefaultCategories", res.error)
  /\ creating' = [creating EXCEPT ![u] = @ - 1]
  /\ UNCHANGED <<users, profiles, expenses, nextProfile, nextExpense, migrated,
                 insertingProfile, clientVars>>

\* addCategory(categoryData)
addCategory(u, categoryData) ==
  /\ u \in users
  /\ nextCategory[u] <= MaxAddedId
  /\ \E res \in Answers(addCategoryRequest(u, categoryData)) :
       /\ categories' = res.categories
       /\ nextCategory' = [nextCategory EXCEPT ![u] =
                             IF res.error = NoError THEN @ + 1 ELSE @]
       /\ last' = Outcome("addCategory", res.error)
  /\ UNCHANGED <<users, profiles, expenses, creating, nextProfile, nextExpense, migrated,
                 insertingProfile, clientVars>>

\* updateCategory(categoryId, updates)
updateCategory(u, categoryId, updates) ==
  /\ u \in users
  /\ \E res \in Answers(updateCategoryRequest(u, categoryId, updates)) :
       /\ categories' = res.categories
       /\ last' = Outcome("updateCategory", res.error)
  /\ UNCHANGED <<users, profiles, expenses, creating,
                 nextProfile, nextCategory, nextExpense, migrated,
                 insertingProfile, clientVars>>

\* deleteCategory(categoryId)
deleteCategory(u, categoryId) ==
  /\ u \in users
  /\ \E res \in Answers(deleteCategoryRequest(u, categoryId)) :
       /\ categories' = res.categories
       /\ expenses' = res.expenses
       /\ last' = [Outcome("deleteCategory", res.error) EXCEPT
                      !.removed =
                        {c.id : c \in categories} \ {c.id : c \in res.categories},
                      !.reassigned =
                        {e.id : e \in {x \in expenses :
                           \E y \in res.expenses :
                             y.id = x.id /\ y.category_id # x.category_id}},
                      !.cascaded =
                        {e.id : e \in expenses} \ {e.id : e \in res.expenses}]
  /\ UNCHANGED <<users, profiles, creating,
                 nextProfile, nextCategory, nextExpense, migrated,
                 insertingProfile, clientVars>>

\* clearCategoryExpenses(categoryId)
clearCategoryExpenses(u, categoryId) ==
  /\ u \in users
  /\ \E res \in Answers(clearCategoryExpensesRequest(u, categoryId)) :
       /\ expenses' = res.expenses
       /\ last' = Outcome("clearCategoryExpenses", res.error)
  /\ UNCHANGED <<users, profiles, categories, creating,
                 nextProfile, nextCategory, nextExpense, migrated,
                 insertingProfile, clientVars>>

-----------------------------------------------------------------------------
(* useExpenses: the request of each operation, then the operation *)

\* user_id is the signed-in identity
addExpenseRequest(u, category_id, amount) ==
  InsertExpense(categories, expenses, u,
                [user_id |-> u, category_id |-> category_id, amount |-> amount,
                 date |-> Today],
                <<nextExpense>>)

\* filtered by the id alone
updateExpenseRequest(u, expenseId, category_id, amount) ==
  UpdateExpenses(categories, expenses, u, expenseId, category_id, amount)

\* filtered by the id alone
deleteExpenseRequest(u, expenseId) ==
  DeleteExpenseById(categories, expenses, u, expenseId)

\* addExpense(expenseData)
addExpense(u, category_id, amount) ==
  /\ u \in users
  /\ nextExpense <= MaxExpenseId
  /\ \E res \in Answers(addExpenseRequest(u, category_id, amount)) :
       /\ expenses' = res.expenses
       /\ nextExpense' = IF res.error = NoError THEN nextExpense + 1 ELSE nextExpense
       /\ last' = Outcome("addExpense", res.error)
  /\ UNCHANGED <<users, profiles, categories, creating,
                 nextProfile, nextCategory, migrated,
                 insertingProfile, clientVars>>

\* updateExpense(expense)
updateExpense(u, expenseId, category_id, amount) ==
  /\ u \in users
  /\ \E res \in Answers(updateExpenseRequest(u, expenseId, category_id, amount)) :
       /\ expenses' = res.expenses
       /\ last' = Outcome("updateExpense", res.error)
  /\ UNCHANGED <<users, profiles, categories, creating,
                 nextProfile, nextCategory, nextExpense, migrated,
                 insertingProfile, clientVars>>

\* deleteExpense(expenseId)
deleteExpense(u, expenseId) ==
  /\ u \in users
  /\ \E res \in Answers(deleteExpenseRequest(u, expenseId)) :
       /\ expenses' = res.expenses
       /\ last' = Outcome("deleteExpense", res.error)
  /\ UNCHANGED <<users, profiles, categories, creating,
                 nextProfile, nextCategory, nextExpense, migrated,
                 insertingProfile, clientVars>>

-----------------------------------------------------------------------------
(* ExpenseForm *)

\* handleSubmit: category_id is the category the form was opened for,
\* editing the id of the expense being edited (NULL when adding), text the
\* amount field.  The requests it makes: none unless the parsed amount is > 0.
handleSubmitRequests(u, category_id, editing, text) ==
  LET amount == parseFloat(text)
  IN  IF GreaterThanZero(amount)
      THEN IF editing # NULL
           THEN {updateExpenseRequest(u, editing, category_id, amount.value)}
           ELSE {addExpenseRequest(u, category_id, amount.value)}
      ELSE {}

handleSubmit(u, category_id, editing, text) ==
  /\ u \in users
  /\ \E c \in categories : c.id = category_id /\ c.user_id = u
  /\ editing # NULL => \E e \in expenses : e.id = editing /\ e.user_id = u
  /\ editing = NULL => nextExpense <= MaxExpenseId
  /\ LET requests == handleSubmitRequests(u, category_id, editing, text)
     IN  IF requests = {}
         THEN /\ UNCHANGED <<expenses, nextExpense>>
              /\ last' = Outcome("handleSubmit", NotSubmitted)
         ELSE \E req \in requests : \E res \in Answers(req) :
                /\ expenses' = res.expenses
                /\ nextExpense' = IF editing = NULL /\ res.error = NoError
                                  THEN nextExpense + 1 ELSE nextExpense
                /\ last' = Outcome("handleSubmit", res.error)
  /\ UNCHANGED <<users, profiles, categories, creating,
                 nextProfile, nextCategory, migrated,
                 insertingProfile, clientVars>>

-----------------------------------------------------------------------------
(* The "Remove Default Categories" migration, run once by the migration role *)

\* DROP TRIGGER category_deletion_trigger; DELETE FROM categories WHERE
\* is_default = true (with its ON DELETE CASCADE); DELETE FROM expenses WHERE
\* category_id NOT IN (SELECT id FROM categories); CREATE TRIGGER again.
RemoveDefaultCategories ==
  /\ ~migrated
  /\ LET removed == {c \in categories : c.is_default = TRUE}
         kept == categories \ removed
         cascaded == fk_expenses_category_id_cascade(expenses, {c.id : c \in removed})
     IN  /\ categories' = kept
         /\ expenses' = {e \in cascaded : e.category_id \in {c.id : c \in kept}}
  /\ migrated' = TRUE
  /\ last' = Outcome("migration", NoError)
  /\ UNCHANGED <<users, profiles, creating, nextProfile, nextCategory, nextExpense,
                 insertingProfile, clientVars>>

-----------------------------------------------------------------------------
(* One client session: useCategories and useExpenses with their local      *)
(* state, and the App handlers that call them                               *)

\* A decimal(12,2) as the JSON number the client receives, in thousandths.
JsonNumber(amount) == amount * 10

\* A row of expenses as the client receives it.
ExpenseData(e) == [e EXCEPT !.amount = JsonNumber(@)]

\* date strings YYYY-MM-DD compare as year, month, day
DateLess(a, b) ==
  \/ a[1] < b[1]
  \/ a[1] = b[1] /\ a[2] < b[2]
  \/ a[1] = b[1] /\ a[2] = b[2] /\ a[3] < b[3]

\* .order('is_default', { ascending: false }).order('created_at'): a row
\* created earlier has a smaller count in its id
CategoryBefore(c, d) ==
  \/ c.is_default = TRUE /\ d.is_default # TRUE
  \/ (c.is_default = TRUE) = (d.is_default = TRUE) /\ c.id[2] < d.id[2]

RECURSIVE CategoriesInOrder(_)
CategoriesInOrder(rows) ==
  IF rows = {} THEN <<>>
  ELSE LET first == CHOOSE c \in rows : \A d \in rows \ {c} : CategoryBefore(c, d)
       IN  <<first>> \o CategoriesInOrder(rows \ {first})

\* .order('date', { ascending: false }); rows of one date in the order of
\* their ids
ExpenseBefore(e, f) ==
  \/ DateLess(f.date, e.date)
  \/ e.date = f.date /\ e.id[1] < f.id[1]

RECURSIVE ExpensesInOrder(_)
ExpensesInOrder(rows) ==
  IF rows = {} THEN <<>>
  ELSE LET first == CHOOSE e \in rows : \A f \in rows \ {e} : ExpenseBefore(e, f)
       IN  <<first>> \o ExpensesInOrder(rows \ {first})

\* prev.map(row => row.id === id ? data : row); data is the set of the rows
\* the request returned or was given (one, or none when it failed)
MapById(list, id, data) ==
  [i \in 1..Len(list) |->
     IF list[i].id = id /\ data # {} THEN CHOOSE row \in data : TRUE ELSE list[i]]

\* A hook that sets its list whatever the request returned.
SetRegardless(error, next, prev) == next

\* if (error) throw error; setCategories(...) or setExpenses(...): the list is
\* set when the request returned without error, and left as it was (prev)
\* when the catch block is entered.
SetOnSuccess(error, next, prev) == IF error = NoError THEN next ELSE prev

\* prev.filter(row => row.id !== id)
FilterById(list, id) == SelectSeq(list, LAMBDA row : row.id # id)

\* The elements of a list.
Range(list) == {list[i] : i \in 1..Len(list)}

\* The App shows its screen (not the loading screen) and no handler is
\* waiting for a request.
Ready ==
  /\ local.user # NoUser
  /\ ~local.categoriesLoading
  /\ ~local.expensesLoading
  /\ local.fetching = {}

\* useEffect(..., [user]) of both hooks when useAuth delivers the user:
\* fetchCategories and fetchExpenses are sent.
useEffect ==
  /\ ClientUser \in users
  /\ local.user = NoUser
  /\ local' = [local EXCEPT !.user = ClientUser,
                            !.fetching = {"fetchCategories", "fetchExpenses"}]
  /\ last' = Outcome("useEffect", NoError)
  /\ UNCHANGED <<users, profiles, categories, expenses, creating, nextProfile,
                 nextCategory, nextExpense, migrated, insertingProfile,
                 manager, chart>>

\* fetchCategories with setLoading(false) at the end of the try block instead
\* of the finally block: a failed select leaves the flag set.
useCategories_fetchCategoriesNoFinally ==
  /\ "fetchCategories" \in local.fetching
  /\ \E failed \in BOOLEAN :
       LET data == CategoriesInOrder({c \in categories :
                     c.user_id = local.user
                     /\ categories_select_policy(local.user, c)})
       IN  /\ local' =
                IF failed
                THEN [local EXCEPT !.fetching = @ \ {"fetchCategories"}]
                ELSE IF Len(data) = 0
                THEN [local EXCEPT !.fetching = (@ \ {"fetchCategories"})
                                                  \cup {"createDefaultCategories"}]
                ELSE [local EXCEPT !.fetching = @ \ {"fetchCategories"},
                                   !.categories = data,
                                   !.categoriesLoading = FALSE]
           /\ last' = Outcome("fetchCategories",
                              IF failed THEN TransientFailure ELSE NoError)
  /\ UNCHANGED <<users, profiles, categories, expenses, creating, nextProfile,
                 nextCategory, nextExpense, migrated, insertingProfile,
                 manager, chart>>

\* fetchCategories of the session: the select returns.  setLoading(false) in
\* the finally block, which runs after createDefaultCategories when the list
\* was empty.
useCategories_fetchCategories ==
  /\ "fetchCategories" \in local.fetching
  /\ \E failed \in BOOLEAN :
       LET data == CategoriesInOrder({c \in categories :
                     c.user_id = local.user
                     /\ categories_select_policy(local.user, c)})
       IN  /\ local' =
                IF failed
                THEN [local EXCEPT !.fetching = @ \ {"fetchCategories"},
                                   !.categoriesLoading = FALSE]
                ELSE IF Len(data) = 0
                THEN [local EXCEPT !.fetching = (@ \ {"fetchCategories"})
                                                  \cup {"createDefaultCategories"}]
                ELSE [local EXCEPT !.fetching = @ \ {"fetchCategories"},
                                   !.categories = data,
                                   !.categoriesLoading = FALSE]
           /\ last' = Outcome("fetchCategories",
                              IF failed THEN TransientFailure ELSE NoError)
  /\ UNCHANGED <<users, profiles, categories, expenses, creating, nextProfile,
                 nextCategory, nextExpense, migrated, insertingProfile,
                 manager, chart>>

\* createDefaultCategories of the session: the insert returns; then the
\* finally block of fetchCategories.
useCategories_createDefaultCategories ==
  /\ "createDefaultCategories" \in local.fetching
  /\ createDefaultCategoriesRequest(local.user).error = NoError
       => nextCategory[local.user] + Len(Batch(defaultCategories)) - 1
            <= MaxCategoryId
  /\ \E res \in Answers(createDefaultCategoriesRequest(local.user)) :
       /\ categories' = res.categories
       /\ nextCategory' = [nextCategory EXCEPT ![local.user] =
                             IF res.error = NoError
                             THEN @ + Len(Batch(defaultCategories)) ELSE @]
       /\ local' = [local EXCEPT
                      !.fetching = @ \ {"createDefaultCategories"},
                      !.categories =
                        SetOnSuccess(res.error,
                                     CategoriesInOrder(res.categories \ categories), @),
                      !.categoriesLoading = FALSE]
       /\ last' = Outcome("createDefaultCategories", res.error)
  /\ UNCHANGED <<users, profiles, expenses, creating, nextProfile,
                 nextExpense, migrated, insertingProfile, manager, chart>>

\* fetchExpenses of the session, from the effect or from refetchExpenses.
useExpenses_fetchExpenses ==
  /\ "fetchExpenses" \in local.fetching
  /\ \E failed \in BOOLEAN :
       LET data == ExpensesInOrder({ExpenseData(e) : e \in
                     {x \in expenses : x.user_id = local.user
                                       /\ expenses_select_policy(local.user, x)}})
       IN  /\ local' = [local EXCEPT
                          !.fetching = @ \ {"fetchExpenses"},
                          !.expenses =
                            SetOnSuccess(IF failed THEN TransientFailure ELSE NoError,
                                         data, @),
                          !.expensesLoading = FALSE,
                          !.awaiting = FALSE,
                          !.failed = @ \/ (failed /\ local.awaiting)]
           /\ last' = Outcome("fetchExpenses",
                              IF failed THEN TransientFailure ELSE NoError)
  /\ UNCHANGED <<users, profiles, categories, expenses, creating, nextProfile,
                 nextCategory, nextExpense, migrated, insertingProfile,
                 manager, chart>>

\* What a handler leaves in local when its hook operation ended with error:
\* the handler that awaits refetchExpenses goes on to it unless the hook
\* threw.
AfterHook(loc, name, error, refetch) ==
  [loc EXCEPT !.handler  = name,
              !.failed   = error # NoError,
              !.awaiting = refetch /\ error = NoError,
              !.fetching = IF refetch /\ error = NoError
                           THEN {"fetchExpenses"} ELSE {}]

\* handleAddCategory(categoryData): addCategory, which appends the returned
\* row.  The component state is left to the caller.
handleAddCategory(categoryData) ==
  /\ Ready
  /\ nextCategory[local.user] <= MaxCategoryId
  /\ \E res \in Answers(addCategoryRequest(local.user, categoryData)) :
       /\ categories' = res.categories
       /\ nextCategory' = [nextCategory EXCEPT ![local.user] =
                             IF res.error = NoError THEN @ + 1 ELSE @]
       /\ local' = AfterHook(
                     [local EXCEPT !.categories =
                        SetOnSuccess(res.error,
                          @ \o CategoriesInOrder(res.categories \ categories), @)],
                     "handleAddCategory", res.error, FALSE)
       /\ last' = Outcome("addCategory", res.error)
  /\ UNCHANGED <<users, profiles, expenses, creating, nextProfile,
                 nextExpense, migrated, insertingProfile, chart>>

\* handleUpdateCategory(categoryId, updates): updateCategory, which replaces
\* the row of the list by the returned one, then refetchExpenses.  The
\* component state is left to the caller.
handleUpdateCategory(categoryId, updates) ==
  /\ Ready
  /\ \E res \in Answers(updateCategoryRequest(local.user, categoryId, updates)) :
       /\ categories' = res.categories
       /\ local' = AfterHook(
                     [local EXCEPT !.categories =
                        SetOnSuccess(res.error,
                          MapById(@, categoryId,
                                  {c \in res.categories : c.id = categoryId}), @)],
                     "handleUpdateCategory", res.error, TRUE)
       /\ last' = Outcome("updateCategory", res.error)
  /\ UNCHANGED <<users, profiles, expenses, creating, nextProfile, nextCategory,
                 nextExpense, migrated, insertingProfile, chart>>

\* handleDeleteCategory(categoryId): deleteCategory, which drops the row from
\* the list, then refetchExpenses.  The delete button is shown for the
\* categories of the list that are not the default.
handleDeleteCategory(categoryId) ==
  /\ Ready
  /\ \E c \in Range(local.categories) : c.id = categoryId /\ c.is_default # TRUE
  /\ \E res \in Answers(deleteCategoryRequest(local.user, categoryId)) :
       /\ categories' = res.categories
       /\ expenses' = res.expenses
       /\ local' = AfterHook(
                     [local EXCEPT !.categories =
                        SetOnSuccess(res.error, FilterById(@, categoryId), @)],
                     "handleDeleteCategory", res.error, TRUE)
       /\ last' = Outcome("deleteCategory", res.error)
  /\ UNCHANGED <<users, profiles, creating, nextProfile, nextCategory,
                 nextExpense, migrated, insertingProfile, manager, chart>>

\* handleClearCategory(categoryId): clearCategoryExpenses, which leaves both
\* lists alone, then refetchExpenses.
handleClearCategory(categoryId) ==
  /\ Ready
  /\ \E c \in Range(local.categories) : c.id = categoryId /\ c.is_default # TRUE
  /\ \E res \in Answers(clearCategoryExpensesRequest(local.user, categoryId)) :
       /\ expenses' = res.expenses
       /\ local' = AfterHook(local, "handleClearCategory", res.error, TRUE)
       /\ last' = Outcome("clearCategoryExpenses", res.error)
  /\ UNCHANGED <<users, profiles, categories, creating, nextProfile,
                 nextCategory, nextExpense, migrated, insertingProfile,
                 manager, chart>>

\* handleAddExpense(expenseData), called by the expense form for the selected
\* category of the list with the parsed amount: addExpense, which puts the
\* returned row in front.
handleAddExpense(category_id, text) ==
  /\ Ready
  /\ \E c \in Range(local.categories) : c.id = category_id
  /\ GreaterThanZero(parseFloat(text))
  /\ nextExpense <= MaxSessionExpenseId
  /\ \E res \in Answers(addExpenseRequest(local.user, category_id,
                                          parseFloat(text).value)) :
       /\ expenses' = res.expenses
       /\ nextExpense' = IF res.error = NoError THEN nextExpense + 1 ELSE nextExpense
       /\ local' = AfterHook(
                     [local EXCEPT !.expenses =
                        SetOnSuccess(res.error,
                          ExpensesInOrder({ExpenseData(e) :
                                             e \in res.expenses \ expenses}) \o @,
                          @)],
                     "handleAddExpense", res.error, FALSE)
       /\ last' = Outcome("addExpense", res.error)
  /\ UNCHANGED <<users, profiles, categories, creating, nextProfile,
                 nextCategory, migrated, insertingProfile, manager, chart>>

\* handleUpdateExpense(updatedExpense), called by the expense form for an
\* expense of the list whose category handleEditExpense found in the list:
\* updateExpense, which replaces the row of the list by the object it was
\* given.
handleUpdateExpense(expenseId, text) ==
  /\ Ready
  /\ GreaterThanZero(parseFloat(text))
  /\ \E e \in Range(local.expenses) :
       /\ e.id = expenseId
       /\ \E c \in Range(local.categories) : c.id = e.category_id
       /\ \E res \in Answers(updateExpenseRequest(local.user, e.id, e.category_id,
                                                  parseFloat(text).value)) :
            /\ expenses' = res.expenses
            /\ local' = AfterHook(
                          [local EXCEPT !.expenses =
                             SetOnSuccess(res.error,
                               MapById(@, e.id,
                                       {[e EXCEPT !.amount = parseFloat(text).value]}),
                               @)],
                          "handleUpdateExpense", res.error, FALSE)
            /\ last' = Outcome("updateExpense", res.error)
  /\ UNCHANGED <<users, profiles, categories, creating, nextProfile,
                 nextCategory, nextExpense, migrated, insertingProfile,
                 manager, chart>>

\* handleDeleteExpense(expenseId) for an expense of the list: deleteExpense,
\* which drops the row from the list.
handleDeleteExpense(expenseId) ==
  /\ Ready
  /\ \E e \in Range(local.expenses) : e.id = expenseId
  /\ \E res \in Answers(deleteExpenseRequest(local.user, expenseId)) :
       /\ expenses' = res.expenses
       /\ local' = AfterHook(
                     [local EXCEPT !.expenses =
                        SetOnSuccess(res.error, FilterById(@, expenseId), @)],
                     "handleDeleteExpense", res.error, FALSE)
       /\ last' = Outcome("deleteExpense", res.error)
  /\ UNCHANGED <<users, profiles, categories, creating, nextProfile,
                 nextCategory, nextExpense, migrated, insertingProfile,
                 manager, chart>>

-----------------------------------------------------------------------------
(* CategoryManager: the add form and the edit form of the session *)

\* CATEGORY_COLORS, in the order of the source: the entries that the starter
\* sets and the inputs of the model use.
CATEGORY_COLORS == <<"#EF4444", "#DC2626", "#06B6D4", "#6B7280">>

\* Names typed into the add form.
FormNames == {"Travel"}

\* editingCategory?.id
EditingId(mgr) ==
  IF mgr.editingCategory = <<>> THEN NULL ELSE mgr.editingCategory[1].id

\* usedColors: the colors of the categories of the list, without the one
\* being edited
usedColors(cats, mgr) ==
  {cats[i].color : i \in {j \in 1..Len(cats) : cats[j].id # EditingId(mgr)}}

\* availableColors
availableColors(cats, mgr) ==
  SelectSeq(CATEGORY_COLORS,
            LAMBDA color : \/ color \notin usedColors(cats, mgr)
                           \/ (mgr.editingCategory # <<>> /\ mgr.editForm.color = color))

\* React.useEffect(..., [showForm, availableColors]), run after every render:
\* the first available color becomes the color of the add form that has none.
DefaultColorEffect(cats, mgr) ==
  IF mgr.showForm /\ mgr.newCategory.color = "" /\ Len(availableColors(cats, mgr)) > 0
  THEN [mgr EXCEPT !.newCategory.color = availableColors(cats, mgr)[1]]
  ELSE mgr

\* A call of onAddCategory or onUpdateCategory: the color it passes, and
\* (history) the colors that the other categories of the list have at the
\* call.
Passed(handler, color, cats, id) ==
  [handler |-> handler, color |-> color,
   others  |-> {cats[i].color : i \in {j \in 1..Len(cats) : cats[j].id # id}}]

\* The component is on the screen.
Shown ==
  /\ local.user # NoUser
  /\ ~local.categoriesLoading
  /\ ~local.expensesLoading

\* The actions below that call no handler leave everything but the component
\* state alone.
OnlyManager ==
  UNCHANGED <<users, profiles, categories, expenses, creating, nextProfile,
              nextCategory, nextExpense, migrated, insertingProfile, last,
              local, chart>>

\* handleFormToggle: the "Add Category" button
handleFormToggle ==
  /\ Shown
  /\ ~(~manager.showForm /\ Len(availableColors(local.categories, manager)) = 0)
  /\ manager' = DefaultColorEffect(local.categories,
                  [manager EXCEPT !.showForm = ~manager.showForm])
  /\ OnlyManager

\* the "Cancel" button of the add form: setShowForm(false)
cancelForm ==
  /\ Shown
  /\ manager.showForm
  /\ manager' = [manager EXCEPT !.showForm = FALSE]
  /\ OnlyManager

\* onChange of the name field of the add form
setNewCategoryName(name) ==
  /\ Shown
  /\ manager.showForm
  /\ manager' = [manager EXCEPT !.newCategory.name = name]
  /\ OnlyManager

\* onClick of a color button of the add form: !isUsed && setNewCategory(...)
selectNewColor(color) ==
  /\ Shown
  /\ manager.showForm
  /\ color \notin usedColors(local.categories, manager)
  /\ manager' = [manager EXCEPT !.newCategory.color = color]
  /\ OnlyManager

\* handleSubmit of the add form.  Nothing happens without a name and a color,
\* and a color of usedColors is refused with an alert; otherwise
\* onAddCategory(newCategory) is called and the form is reset and closed.
CategoryManager_handleSubmit ==
  /\ Shown
  /\ manager.showForm
  /\ manager.newCategory.name # "" /\ manager.newCategory.color # ""
  /\ manager.newCategory.color \notin usedColors(local.categories, manager)
  /\ handleAddCategory(manager.newCategory)
  /\ manager' = DefaultColorEffect(local'.categories,
                  [manager EXCEPT
                     !.newCategory = [name |-> "", color |-> "", icon |-> FirstIcon],
                     !.showForm = FALSE,
                     !.passed = <<Passed("onAddCategory", manager.newCategory.color,
                                         local.categories, NULL)>>])

\* handleEditCategory(category): the edit button of a category of the list
handleEditCategory(category) ==
  /\ Shown
  /\ manager' = DefaultColorEffect(local.categories,
                  [manager EXCEPT
                     !.editingCategory = <<category>>,
                     !.editForm = [name |-> category.name, color |-> category.color]])
  /\ OnlyManager

\* onClick of a color button of the edit form:
\* (!isUsed || isCurrentColor) && setEditForm(...)
selectEditColor(color) ==
  /\ Shown
  /\ manager.editingCategory # <<>>
  /\ \/ color \notin usedColors(local.categories, manager)
     \/ manager.editingCategory[1].color = color
  /\ manager' = DefaultColorEffect(local.categories,
                  [manager EXCEPT !.editForm.color = color])
  /\ OnlyManager

\* handleUpdateCategory of the edit form.  A color that another category of
\* the list has is refused with an alert; otherwise onUpdateCategory is
\* awaited, and the form is closed unless it threw.
CategoryManager_handleUpdateCategory ==
  /\ Shown
  /\ manager.editingCategory # <<>>
  /\ manager.editForm.name # "" /\ manager.editForm.color # ""
  /\ manager.editForm.color \notin
       {local.categories[i].color :
          i \in {j \in 1..Len(local.categories) :
                   local.categories[j].id # manager.editingCategory[1].id}}
  /\ handleUpdateCategory(manager.editingCategory[1].id,
                          [name |-> manager.editForm.name,
                           color |-> manager.editForm.color])
  /\ LET called == [manager EXCEPT
                      !.passed = <<Passed("onUpdateCategory", manager.editForm.color,
                                          local.categories,
                                          manager.editingCategory[1].id)>>]
     IN  manager' = DefaultColorEffect(local'.categories,
                      IF last'.thrown
                      THEN called
                      ELSE [called EXCEPT !.editingCategory = <<>>,
                                          !.editForm = [name |-> "", color |-> ""]])

\* cancelEdit
cancelEdit ==
  /\ Shown
  /\ manager.editingCategory # <<>>
  /\ manager' = DefaultColorEffect(local.categories,
                  [manager EXCEPT !.editingCategory = <<>>,
                                  !.editForm = [name |-> "", color |-> ""]])
  /\ OnlyManager

-----------------------------------------------------------------------------
(* The components that aggregate the local lists: LineChart, PieChart, the  *)
(* recent expenses of App, ExpenseSummary.  Amounts are JavaScript numbers  *)
(* in thousandths; a ratio is kept as numerator and denominator.            *)

\* date.substring(0, 7): the YYYY-MM prefix of a date, as year, month
Month(date) == SubSeq(date, 1, 2)

\* a.month.localeCompare(b.month) < 0 on YYYY-MM strings
MonthLess(a, b) == a[1] < b[1] \/ (a[1] = b[1] /\ a[2] < b[2])

\* list.filter(keep), for the conditions the components use
ExpensesOfMonth(list, month) == SelectSeq(list, LAMBDA e : Month(e.date) = month)
ExpensesOfDate(list, date) == SelectSeq(list, LAMBDA e : e.date = date)
ExpensesOfCategory(list, id) == SelectSeq(list, LAMBDA e : e.category_id = id)

\* list.reduce((sum, expense) => sum + expense.amount, 0)
RECURSIVE SumAmounts(_)
SumAmounts(list) ==
  IF list = <<>> THEN 0
  ELSE SumAmounts(SubSeq(list, 1, Len(list) - 1)) + list[Len(list)].amount

\* A grouping that keeps the last amount of a month, not the sum.
RECURSIVE monthlyExpensesOverwriting(_)
monthlyExpensesOverwriting(list) ==
  IF list = <<>> THEN <<>>
  ELSE LET acc == monthlyExpensesOverwriting(SubSeq(list, 1, Len(list) - 1))
           expense == list[Len(list)]
           month == Month(expense.date)
       IN  IF \E i \in 1..Len(acc) : acc[i].month = month
           THEN [i \in 1..Len(acc) |->
                   IF acc[i].month = month
                   THEN [acc[i] EXCEPT !.amount = expense.amount]
                   ELSE acc[i]]
           ELSE Append(acc, [month |-> month, amount |-> expense.amount])

\* LineChart monthlyExpenses: expenses.reduce(...) into an object keyed by
\* month; its entries, in the order the keys were first set.
RECURSIVE monthlyExpenses(_)
monthlyExpenses(list) ==
  IF list = <<>> THEN <<>>
  ELSE LET acc == monthlyExpenses(SubSeq(list, 1, Len(list) - 1))
           expense == list[Len(list)]
           month == Month(expense.date)
       IN  IF \E i \in 1..Len(acc) : acc[i].month = month
           THEN [i \in 1..Len(acc) |->
                   IF acc[i].month = month
                   THEN [acc[i] EXCEPT !.amount = @ + expense.amount]
                   ELSE acc[i]]
           ELSE Append(acc, [month |-> month, amount |-> 0 + expense.amount])

\* .sort((a, b) => a.month.localeCompare(b.month)): a stable sort, here by
\* insertion
RECURSIVE SortByMonth(_)
SortByMonth(list) ==
  IF list = <<>> THEN <<>>
  ELSE LET sorted == SortByMonth(SubSeq(list, 1, Len(list) - 1))
           x == list[Len(list)]
           k == Cardinality({i \in 1..Len(sorted) : ~MonthLess(x.month, sorted[i].month)})
       IN  SubSeq(sorted, 1, k) \o <<x>> \o SubSeq(sorted, k + 1, Len(sorted))

\* LineChart monthlyData
monthlyData(list) == SortByMonth(monthlyExpenses(list))

\* .sort((a, b) => b.amount - a.amount): stable, descending by amount
RECURSIVE SortByAmountDescending(_)
SortByAmountDescending(list) ==
  IF list = <<>> THEN <<>>
  ELSE LET sorted == SortByAmountDescending(SubSeq(list, 1, Len(list) - 1))
           x == list[Len(list)]
           k == Cardinality({i \in 1..Len(sorted) : sorted[i].amount >= x.amount})
       IN  SubSeq(sorted, 1, k) \o <<x>> \o SubSeq(sorted, k + 1, Len(sorted))

\* Chart data whose percentages are taken of the total of all the filtered
\* expenses, also of those whose category is not in the list.
chartDataOfAllExpenses(list, cats) ==
  LET amounts == [i \in 1..Len(cats) |->
                    [category |-> cats[i],
                     amount   |-> SumAmounts(ExpensesOfCategory(list, cats[i].id))]]
      data == SelectSeq(amounts, LAMBDA d : d.amount > 0)
      total == SumAmounts(list)
  IN  [data  |-> SortByAmountDescending(
                   [i \in 1..Len(data) |->
                      [category   |-> data[i].category,
                       amount     |-> data[i].amount,
                       percentage |-> [num |-> data[i].amount * 100, den |-> total]]]),
       total |-> total]

\* PieChart chart data of a filtered expense list: per category of the list
\* the sum of its expenses, the categories with amount > 0, the total of
\* these amounts, the percentages (data.amount / total) * 100, and the sort.
chartData(list, cats) ==
  LET amounts == [i \in 1..Len(cats) |->
                    [category |-> cats[i],
                     amount   |-> SumAmounts(ExpensesOfCategory(list, cats[i].id))]]
      data == SelectSeq(amounts, LAMBDA d : d.amount > 0)
      total == SumAmounts(data)
  IN  [data  |-> SortByAmountDescending(
                   [i \in 1..Len(data) |->
                      [category   |-> data[i].category,
                       amount     |-> data[i].amount,
                       percentage |-> [num |-> data[i].amount * 100, den |-> total]]]),
       total |-> total]

\* .sort((a, b) => new Date(b.date).getTime() - new Date(a.date).getTime()):
\* stable, descending by date
RECURSIVE SortByDateDescending(_)
SortByDateDescending(list) ==
  IF list = <<>> THEN <<>>
  ELSE LET sorted == SortByDateDescending(SubSeq(list, 1, Len(list) - 1))
           x == list[Len(list)]
           k == Cardinality({i \in 1..Len(sorted) : ~DateLess(sorted[i].date, x.date)})
       IN  SubSeq(sorted, 1, k) \o <<x>> \o SubSeq(sorted, k + 1, Len(sorted))

\* the 5 of .slice(0, 5)
RecentCount == 5

\* The first expenses of the list as it is, without the sort.
recentExpensesUnsorted(list) == SubSeq(list, 1, Min(RecentCount, Len(list)))

\* App recentExpenses: expenses.sort(...).slice(0, 5)
recentExpenses(list) ==
  SubSeq(SortByDateDescending(list), 1, Min(RecentCount, Len(list)))

\* selectedMonth = '': no month filter
NoMonth == <<>>

\* ExpenseSummary filteredExpenses
filteredExpenses(list, selectedMonth) ==
  IF selectedMonth # NoMonth THEN ExpensesOfMonth(list, selectedMonth) ELSE list

\* ExpenseSummary expensesByCategory: the groups, one per category of the
\* category list that a filtered expense references, with its expenses and
\* their total; an expense whose category is not in the list is skipped.
expensesByCategory(filtered, cats) ==
  LET found == SelectSeq(filtered,
                 LAMBDA e : \E i \in 1..Len(cats) : cats[i].id = e.category_id)
  IN  {[category |-> id,
        expenses |-> ExpensesOfCategory(found, id),
        total    |-> SumAmounts(ExpensesOfCategory(found, id))] :
         id \in {found[i].category_id : i \in 1..Len(found)}}

\* ExpenseSummary totalAmount
totalAmount(filtered) == SumAmounts(filtered)

\* What the components are given in the model: lists of at most
\* MaxChartExpenses expenses, each one of these samples with the id of its
\* place, and two categories.  The third sample references a category that
\* is not in the list.
SampleExpenses ==
  { [category_id |-> <<"u1", 1>>, amount |-> 10000, date |-> <<2025, 5, 20>>],
    [category_id |-> <<"u1", 2>>, amount |-> 20000, date |-> <<2025, 6, 1>>],
    [category_id |-> <<"u1", 1>>, amount |-> 30000, date |-> <<2025, 6, 12>>],
    [category_id |-> <<"u1", 3>>, amount |-> 5000,  date |-> <<2024, 12, 31>>] }

SampleCategories ==
  << [id |-> <<"u1", 1>>, name |-> "General"],
     [id |-> <<"u1", 2>>, name |-> "Food & Dining"] >>

ChartInputs ==
  UNION {{[i \in 1..n |-> [id          |-> <<i>>,
                           category_id |-> f[i].category_id,
                           amount      |-> f[i].amount,
                           date        |-> f[i].date]] :
            f \in [1..n -> SampleExpenses]} : n \in 0..MaxChartExpenses}

\* the months and dates that can be selected in the pie chart
SelectableMonths == {<<2025, 6>>, <<2025, 5>>}
SelectableDates == {Today, <<2025, 5, 20>>}

InitCharts ==
  /\ local = LocalInit
  /\ manager = ManagerInit
  /\ chart \in {[expenses |-> list, categories |-> SampleCategories, rendered |-> <<>>] :
                  list \in ChartInputs}
  /\ users = {}
  /\ profiles = {}
  /\ categories = {}
  /\ expenses = {}
  /\ creating = [u \in Users |-> 0]
  /\ nextProfile = [u \in Users |-> 1]
  /\ nextCategory = [u \in Users |-> 1]
  /\ nextExpense = 1
  /\ migrated = FALSE
  /\ insertingProfile = [u \in Users |-> 0]
  /\ last = Outcome("init", NoError)

\* the render of a component leaves everything but chart alone
OnlyChart ==
  UNCHANGED <<users, profiles, categories, expenses, creating, nextProfile,
              nextCategory, nextExpense, migrated, insertingProfile, last,
              local, manager>>

\* LineChart({ expenses })
LineChart ==
  /\ chart' = [chart EXCEPT !.rendered =
                 <<[component   |-> "LineChart",
                    monthlyData |-> monthlyData(chart.expenses)]>>]
  /\ OnlyChart

\* PieChart({ expenses, categories }) with its selectedMonth and selectedDate
PieChart(selectedMonth, selectedDate) ==
  /\ chart' = [chart EXCEPT !.rendered =
                 <<[component     |-> "PieChart",
                    selectedMonth |-> selectedMonth,
                    selectedDate  |-> selectedDate,
                    month   |-> chartData(ExpensesOfMonth(chart.expenses, selectedMonth),
                                          chart.categories),
                    date    |-> chartData(ExpensesOfDate(chart.expenses, selectedDate),
                                          chart.categories),
                    overall |-> chartData(chart.expenses, chart.categories)]>>]
  /\ OnlyChart

\* App: recentExpenses; sort works in place, so the list itself is sorted
App_recentExpenses ==
  /\ chart' = [chart EXCEPT
                 !.expenses = SortByDateDescending(chart.expenses),
                 !.rendered = <<[component      |-> "App",
                                 given          |-> chart.expenses,
                                 recentExpenses |-> recentExpenses(chart.expenses)]>>]
  /\ OnlyChart

NextCharts ==
  \/ LineChart
  \/ \E m \in SelectableMonths : \E d \in SelectableDates : PieChart(m, d)
  \/ App_recentExpenses

SpecCharts == InitCharts /\ [][NextCharts]_vars

-----------------------------------------------------------------------------
(* Specifications *)

\* The running system: signup, the hooks and the expense form.  updateCategory
\* writes name and color only, which no policy, constraint, trigger or other
\* operation reads; it is left to SpecCategories.
Next ==
  \/ \E u \in Users : SignUp(u)
  \/ \E u \in Users : fetchCategories(u)
  \/ \E u \in Users : createDefaultCategories(u)
  \/ \E u \in Users, d \in NewCategories : addCategory(u, d)
  \/ \E u \in Users, id \in CategoryIds : deleteCategory(u, id)
  \/ \E u \in Users, id \in CategoryIds : clearCategoryExpenses(u, id)
  \/ \E u \in Users, c \in CategoryIds, a \in Amounts : addExpense(u, c, a)
  \/ \E u \in Users, e \in ExpenseIds, c \in CategoryIds, a \in Amounts :
       updateExpense(u, e, c, a)
  \/ \E u \in Users, e \in ExpenseIds : deleteExpense(u, e)
  \/ \E u \in Users, c \in CategoryIds, e \in ExpenseIds \cup {NULL}, t \in FormTexts :
       handleSubmit(u, c, e, t)

Spec == Init /\ [][Next]_vars

\* The category mutations alone: provisioning at signup, lazy provisioning by
\* the client, addCategory, updateCategory, deleteCategory.
NextCategories ==
  \/ \E u \in Users : SignUp(u)
  \/ \E u \in Users : fetchCategories(u)
  \/ \E u \in Users : createDefaultCategories(u)
  \/ \E u \in Users, d \in NewCategories : addCategory(u, d)
  \/ \E u \in Users, id \in CategoryIds, d \in CategoryUpdates : updateCategory(u, id, d)
  \/ \E u \in Users, id \in CategoryIds : deleteCategory(u, id)

SpecCategories == Init /\ [][NextCategories]_vars

\* The running system with the last migration applied at some moment: signup,
\* the operations of the hooks on stored rows, the expense form, and the
\* migration.  The lazy provisioning of the client is left to Spec.
NextMigration ==
  \/ \E u \in Users : SignUp(u)
  \/ \E u \in Users, d \in NewCategories : addCategory(u, d)
  \/ \E u \in Users, id \in CategoryIds : deleteCategory(u, id)
  \/ \E u \in Users, id \in CategoryIds : clearCategoryExpenses(u, id)
  \/ \E u \in Users, c \in CategoryIds, a \in Amounts : addExpense(u, c, a)
  \/ \E u \in Users, e \in ExpenseIds, c \in CategoryIds, a \in Amounts :
       updateExpense(u, e, c, a)
  \/ \E u \in Users, e \in ExpenseIds : deleteExpense(u, e)
  \/ \E u \in Users, c \in CategoryIds, e \in ExpenseIds \cup {NULL}, t \in FormTexts :
       handleSubmit(u, c, e, t)
  \/ RemoveDefaultCategories

SpecMigration == Init /\ [][NextMigration]_vars

\* Provisioning: signup whatever its inserts meet, the lazy paths of the
\* client for categories and profile, and the operations that change what a
\* later provisioning run finds.
NextProvisioning ==
  \/ \E u \in Users : on_auth_user_created(u)
  \/ \E u \in Users : fetchCategories(u)
  \/ \E u \in Users : createDefaultCategories(u)
  \/ \E u \in Users : fetchProfile(u)
  \/ \E u \in Users : fetchProfileInsert(u)
  \/ \E u \in Users, d \in ProfileUpdates : updateProfile(u, d)
  \/ \E u \in Users, d \in NewCategories : addCategory(u, d)

SpecProvisioning == Init /\ [][NextProvisioning]_vars

\* Signup under the "Complete Fresh Database Schema" migration, and what the
\* client does with the rows of an identity that was created.
NextUnhandled ==
  \/ \E u \in Users : on_auth_user_created_unhandled(u)
  \/ \E u \in Users : fetchCategories(u)
  \/ \E u \in Users : fetchProfile(u)
  \/ \E u \in Users, d \in ProfileUpdates : updateProfile(u, d)
  \/ \E u \in Users, id \in CategoryIds, d \in CategoryUpdates : updateCategory(u, id, d)
  \/ \E u \in Users, id \in CategoryIds : deleteCategory(u, id)

SpecUnhandled == Init /\ [][NextUnhandled]_vars

\* One client session of one identity, alone on storage: signup, the initial
\* fetches and the App handlers.
NextClient ==
  \/ SignUp(ClientUser)
  \/ useEffect
  \/ useCategories_fetchCategories
  \/ useCategories_createDefaultCategories
  \/ useExpenses_fetchExpenses
  \/ \E d \in NewCategories : handleAddCategory(d) /\ UNCHANGED manager
  \/ \E c \in Range(local.categories) : \E upd \in CategoryUpdates :
       handleUpdateCategory(c.id, upd) /\ UNCHANGED manager
  \/ \E id \in CategoryIds : handleDeleteCategory(id)
  \/ \E id \in CategoryIds : handleClearCategory(id)
  \/ \E id \in CategoryIds : \E text \in FormTexts : handleAddExpense(id, text)
  \/ \E k \in 1..MaxSessionExpenseId : \E text \in FormTexts :
       handleUpdateExpense(<<k>>, text)
  \/ \E k \in 1..MaxSessionExpenseId : handleDeleteExpense(<<k>>)

SpecClient == Init /\ [][NextClient]_vars

\* The client session with its requests answered: every request a hook has
\* sent (the select of fetchCategories, the insert of createDefaultCategories,
\* the select of fetchExpenses) gets its answer or its error, and the
\* continuation of the await runs.
SpecLoading ==
  /\ Init
  /\ [][NextClient]_vars
  /\ WF_vars(useCategories_fetchCategories)
  /\ WF_vars(useCategories_createDefaultCategories)
  /\ WF_vars(useExpenses_fetchExpenses)

\* The category manager of one client session: signup, the initial fetches
\* and the actions of the add form and of the edit form.
NextManager ==
  \/ SignUp(ClientUser)
  \/ useEffect
  \/ useCategories_fetchCategories
  \/ useCategories_createDefaultCategories
  \/ useExpenses_fetchExpenses
  \/ handleFormToggle
  \/ cancelForm
  \/ \E name \in FormNames : setNewCategoryName(name)
  \/ \E i \in 1..Len(CATEGORY_COLORS) : selectNewColor(CATEGORY_COLORS[i])
  \/ CategoryManager_handleSubmit
  \/ \E c \in Range(local.categories) : handleEditCategory(c)
  \/ \E i \in 1..Len(CATEGORY_COLORS) : selectEditColor(CATEGORY_COLORS[i])
  \/ CategoryManager_handleUpdateCategory
  \/ cancelEdit

SpecManager == Init /\ [][NextManager]_vars

-----------------------------------------------------------------------------
(* Properties *)

\* The categories of an identity, and the defaults among them.
OwnCategories(u) == {c \in categories : c.user_id = u}
Defaults(u) == {c \in OwnCategories(u) : c.is_default = TRUE}

\* The rows of a table that belong to an identity.
OwnedBy(rows, u) == {r \in rows : r.user_id = u}

\* C1: after any sequence of category mutations (provisioning at signup, lazy
\* provisioning by the client, addCategory, updateCategory, deleteCategory),
\* every identity that has at least one category has exactly one category
\* with is_default = true.
C1_ExactlyOneDefault ==
  \A u \in Users :
    OwnCategories(u) # {} => Cardinality(Defaults(u)) = 1

\* C2: no step removes from storage a category whose is_default flag is true,
\* be it a delete of its owner through the client or the delete of a migration
\* script.
C2_DefaultNeverRemoved ==
  [][\A c \in categories :
       c.is_default = TRUE => \E d \in categories' : d.id = c.id]_vars

\* C3: when its owner deletes a non-default category C that N expenses
\* reference, C is absent from storage afterwards, each of the N expenses
\* references the owner's default category, and the owner has as many
\* expenses as before.
C3_DeleteReassigns ==
  \A u \in users : \A c \in OwnCategories(u) :
    c.is_default = FALSE =>
      LET r == deleteCategoryRequest(u, c.id)
          defaultIds == {d.id : d \in {x \in r.categories :
                                         x.user_id = u /\ x.is_default = TRUE}}
      IN  /\ r.error = NoError
          /\ ~(\E d \in r.categories : d.id = c.id)
          /\ \A e \in expenses :
               e.category_id = c.id =>
                 \E e2 \in r.expenses : e2.id = e.id /\ e2.category_id \in defaultIds
          /\ Cardinality(OwnedBy(r.expenses, u)) = Cardinality(OwnedBy(expenses, u))

\* C4: a deleteCategory of the owner on a category whose is_default flag is
\* true reports the protected-default error to its caller (or does not reach
\* storage at all), and leaves the stored categories and expenses as they
\* were.
C4_DefaultDeleteFails ==
  [][\A u \in users : \A c \in Defaults(u) :
       deleteCategory(u, c.id) =>
         /\ last'.result \in {ProtectedDefault, TransientFailure}
         /\ UNCHANGED <<categories, expenses>>]_vars

\* Inserts that carry a row with is_default = true for identity u: one row,
\* and the starter batch of the client.
DefaultInserts(u) ==
  { << [user_id |-> u, name |-> "General", color |-> "#6B7280",
        icon |-> "folder", is_default |-> TRUE] >>,
    StarterRows(defaultCategories, u) }

\* C5: an insert of a category with is_default = true for an owner who has a
\* default category fails with the unique violation and stores none of its
\* rows, whether it is one row or a batch.
C5_SecondDefaultRejected ==
  \A u \in users :
    Defaults(u) # {} =>
      /\ \A rows \in DefaultInserts(u) :
           LET r == InsertCategories(categories, expenses, u, rows, nextCategory[u])
           IN  r.error = UniqueViolation /\ r.categories = categories
      /\ createDefaultCategoriesRequest(u).error = UniqueViolation
      /\ createDefaultCategoriesRequest(u).categories = categories

\* The client's starter batch was rejected for an owner who has a default.
C5_Witness ==
  /\ last.op = "createDefaultCategories"
  /\ last.result = UniqueViolation
  /\ \E u \in users : Defaults(u) # {} /\ Cardinality(OwnCategories(u)) = MaxBatch

\* C6: a step of deleteCategory is all or nothing.  A category that is still
\* there after the step has kept every expense that referenced it; a category
\* that is gone has left no expense that references it, and where its owner
\* had a default category the expenses that referenced it now reference that
\* default.
C6_DeletionAtomic ==
  [][last'.op = "deleteCategory" =>
       \A c \in categories :
         LET referencing == {e \in expenses : e.category_id = c.id}
         IN  IF \E d \in categories' : d.id = c.id
             THEN referencing \subseteq expenses'
             ELSE /\ \A e \in expenses' : e.category_id # c.id
                  /\ \A d \in Defaults(c.user_id) : \A e \in referencing :
                       [e EXCEPT !.category_id = d.id] \in expenses']_vars

\* A deletion went through and moved an expense to the default category.
C6_Witness ==
  /\ last.op = "deleteCategory"
  /\ last.result = NoError
  /\ last.reassigned # {}
  /\ \A e \in expenses :
       e.id \in last.reassigned =>
         \E d \in categories : d.id = e.category_id /\ d.is_default = TRUE

\* C7: for two distinct identities a and b, no read of a returns a row of b,
\* and no insert, update or delete of a (with the triggers and cascades of its
\* statement) creates, changes or removes a row whose owner is b.
C7_Isolation ==
  \A a \in users : \A b \in users \ {a} :
    LET Untouched(r) ==
          /\ OwnedBy(r.categories, b) = OwnedBy(categories, b)
          /\ OwnedBy(r.expenses, b) = OwnedBy(expenses, b)
    IN  /\ \A c \in categories : categories_select_policy(a, c) => c.user_id # b
        /\ \A e \in expenses : expenses_select_policy(a, e) => e.user_id # b
        /\ \A p \in profiles : user_profiles_select_policy(a, p) => p.user_id # b
        /\ Untouched(createDefaultCategoriesRequest(a))
        /\ \A d \in NewCategories : Untouched(addCategoryRequest(a, d))
        /\ \A id \in CategoryIds :
             /\ \A d \in CategoryUpdates : Untouched(updateCategoryRequest(a, id, d))
             /\ Untouched(deleteCategoryRequest(a, id))
             /\ Untouched(clearCategoryExpensesRequest(a, id))
             /\ Untouched(DeleteCategories(categories, expenses, a, id, b))
             /\ Untouched(DeleteExpensesOfCategory(categories, expenses, a, id, b))
             /\ \A amount \in Amounts :
                  /\ Untouched(addExpenseRequest(a, id, amount))
                  /\ Untouched(InsertExpense(categories, expenses, a,
                                             [user_id |-> b, category_id |-> id,
                                              amount |-> amount, date |-> Today],
                                             <<nextExpense>>))
                  /\ \A e \in ExpenseIds :
                       Untouched(updateExpenseRequest(a, e, id, amount))
        /\ \A e \in ExpenseIds : Untouched(deleteExpenseRequest(a, e))

\* C8: after any sequence of expense inserts, expense updates and category
\* deletions, every stored expense references a category whose owner is the
\* owner of the expense.
C8_CategoryOfSameOwner ==
  \A e \in expenses : \A c \in categories :
    c.id = e.category_id => c.user_id = e.user_id

\* C9: every stored expense references a category that is in storage; an
\* insert of an expense that names a category that is not in storage is
\* rejected, so is an update of an expense of the caller, and both leave
\* storage as it was.
C9_CategoryExists ==
  /\ \A e \in expenses : \E c \in categories : c.id = e.category_id
  /\ \A u \in users : \A id \in CategoryIds :
       ~(\E c \in categories : c.id = id) =>
         \A amount \in Amounts :
           /\ LET r == addExpenseRequest(u, id, amount)
              IN  /\ r.error = IF amount > 0 THEN ForeignKeyViolation
                                             ELSE CheckViolation
                  /\ r.categories = categories
                  /\ r.expenses = expenses
           /\ \A e \in ExpenseIds :
                LET r == updateExpenseRequest(u, e, id, amount)
                IN  /\ (\E x \in OwnedBy(expenses, u) : x.id = e)
                         => r.error = IF amount > 0 THEN ForeignKeyViolation
                                                    ELSE CheckViolation
                    /\ r.categories = categories
                    /\ r.expenses = expenses

\* An update that named a category that is not in storage was rejected, and
\* the expense it was about is still there.
C9_Witness ==
  /\ last.op = "updateExpense"
  /\ last.result = ForeignKeyViolation
  /\ expenses # {}

\* Amounts that are not positive, in thousandths: -5 and 0.
NonPositiveAmounts == {-5000, 0}

\* C10: every stored expense has amount > 0; storage rejects an insert, and
\* an update of an expense of the caller, whose amount is not positive, and
\* leaves the expenses as they were; the expense form makes no request when
\* the parsed amount is not greater than 0.
C10_AmountPositive ==
  /\ \A e \in expenses : e.amount > 0
  /\ \A u \in users : \A id \in CategoryIds : \A amount \in NonPositiveAmounts :
       /\ LET r == addExpenseRequest(u, id, amount)
          IN  r.error = CheckViolation /\ r.expenses = expenses
       /\ \A e \in ExpenseIds :
            LET r == updateExpenseRequest(u, e, id, amount)
            IN  /\ (\E x \in OwnedBy(expenses, u) : x.id = e)
                     => r.error = CheckViolation
                /\ r.expenses = expenses
  /\ \A u \in users : \A id \in CategoryIds :
       \A editing \in ExpenseIds \cup {NULL} : \A text \in FormTexts :
         ~GreaterThanZero(parseFloat(text))
           => handleSubmitRequests(u, id, editing, text) = {}

\* An update with an amount that is not positive was rejected, and the expense
\* it was about is still there with its positive amount.
C10_Witness ==
  /\ last.op = "updateExpense"
  /\ last.result = CheckViolation
  /\ \E e \in expenses : e.amount > 0

\* The profile rows of an identity in a set of rows that are the default
\* profile, and the categories of an identity that are the "General" default.
DefaultProfiles(profs, u) ==
  {q \in OwnedBy(profs, u) : q.currency_code = "USD" /\ q.currency = "$"}
GeneralDefaults(cats, u) ==
  {c \in OwnedBy(cats, u) : c.is_default = TRUE /\ c.name = "General"}

\* One profile row, the default one, and one default category, "General".
Provisioned(profs, cats, u) ==
  /\ Cardinality(OwnedBy(profs, u)) = 1
  /\ Cardinality(DefaultProfiles(profs, u)) = 1
  /\ Cardinality({c \in OwnedBy(cats, u) : c.is_default = TRUE}) = 1
  /\ Cardinality(GeneralDefaults(cats, u)) = 1

\* C11: provisioning of an identity with no prior rows, when its inserts go
\* through, leaves exactly one profile row with currency_code USD and symbol
\* "$" and exactly one default category, named "General": by the signup
\* trigger for an identity that signs up, and by the inserts of fetchProfile
\* and of fetchCategories for an identity that is signed up.
C11_ProvisioningResult ==
  /\ \A u \in Users \ users :
       (OwnedBy(profiles, u) = {} /\ OwnCategories(u) = {}) =>
         LET t == handle_new_user(profiles, categories, u, nextProfile[u],
                                  nextCategory[u],
                                  [profile_ok |-> TRUE, categories_ok |-> TRUE])
         IN  ~t.raise /\ Provisioned(t.profiles, t.categories, u)
  /\ \A u \in users :
       (OwnedBy(profiles, u) = {} /\ OwnCategories(u) = {}) =>
         LET q == insertDefaultProfileRequest(u)
             r == createDefaultCategoriesRequest(u)
         IN  /\ q.error = NoError
             /\ r.error = NoError
             /\ Provisioned(q.profiles, r.categories, u)

\* The lazy path has just inserted the starter set of an identity that now
\* has one default profile and one default category, "General".
C11_Witness ==
  /\ last.op = "createDefaultCategories"
  /\ last.result = NoError
  /\ \E u \in users :
       /\ nextCategory[u] = 1 + Len(Batch(defaultCategories))
       /\ Provisioned(profiles, categories, u)

C13_SignupNeverAborted ==
  [][last'.op = "signup" =>
       /\ last'.result # SignupAborted
       /\ \E u \in Users \ users : users' = users \cup {u}]_vars

\* C14: after any interleaving of signup provisioning and the lazy creation of
\* the profile by fetchProfile, runs that both read no profile included, each
\* identity has at most one profile row.
C14_AtMostOneProfile ==
  \A u \in Users : Cardinality(OwnedBy(profiles, u)) <= 1

\* Of two fetchProfile runs that read no profile, the second insert was
\* rejected: the identity has the one profile that the first one inserted.
C14_Witness ==
  /\ last.op = "fetchProfile"
  /\ last.result = UniqueViolation
  /\ \E u \in users :
       /\ insertingProfile[u] = 0
       /\ nextProfile[u] = 2
       /\ Cardinality(DefaultProfiles(profiles, u)) = 1

\* C15: when the owner of category C has no default category, the deletion of
\* C by its owner reassigns nothing: the trigger function leaves the expenses
\* as they are and lets the deletion go on, the row of C is removed, the
\* expenses that referenced C are removed with it by ON DELETE CASCADE and no
\* other, and the owner's number of expenses drops by the number of its
\* expenses that referenced C.
C15_NoDefaultCascade ==
  \A u \in users : \A c \in OwnCategories(u) :
    Defaults(u) = {} =>
      LET referencing == {e \in expenses : e.category_id = c.id}
          t == handle_category_deletion(categories, expenses, c)
          r == deleteCategoryRequest(u, c.id)
      IN  /\ ~t.raise /\ t.returns_old
          /\ t.expenses = expenses
          /\ r.error = NoError
          /\ r.categories = categories \ {c}
          /\ r.expenses = expenses \ referencing
          /\ Cardinality(OwnedBy(r.expenses, u))
               = Cardinality(OwnedBy(expenses, u))
                   - Cardinality(OwnedBy(referencing, u))

\* An owner without a default category deleted a category, and the deletion
\* removed expenses and moved none.
C15_Witness ==
  /\ last.op = "deleteCategory"
  /\ last.result = NoError
  /\ last.cascaded # {}
  /\ last.reassigned = {}
  /\ \E u \in users :
       /\ Defaults(u) = {}
       /\ \E id \in last.removed : id[1] = u

\* C16: a step of deleteCategory changes nothing but the category it removes
\* and the expenses that referenced it: every other category is there
\* afterwards with its name, color and is_default flag, and every expense that
\* did not reference the removed category is there afterwards with its
\* category reference and amount.
C16_DeletionFrame ==
  [][last'.op = "deleteCategory" =>
       /\ \A c \in categories : c.id \notin last'.removed => c \in categories'
       /\ categories' \subseteq categories
       /\ \A e \in expenses : e.category_id \notin last'.removed => e \in expenses']_vars

\* A deletion removed a non-default category; the default category of its
\* owner is still the default, and an expense that it did not touch is there.
C16_Witness ==
  /\ last.op = "deleteCategory"
  /\ last.result = NoError
  /\ \E id \in last.removed : \E d \in categories :
       d.user_id = id[1] /\ d.is_default = TRUE /\ d.name = "General"
  /\ \E e \in expenses : e.id \notin last.reassigned

\* C17: every starter set, of the signup function or of the client's lazy
\* path, is inserted in one step, when its owner has no category row, and has
\* exactly one entry with is_default = true, the one named "General".
C17_StarterSetOnEmpty ==
  [][last'.op \in {"signup", "createDefaultCategories"} =>
       \A u \in Users :
         LET inserted == OwnedBy(categories', u) \ OwnedBy(categories, u)
         IN  inserted # {} =>
               /\ OwnCategories(u) = {}
               /\ Cardinality({c \in inserted : c.is_default = TRUE}) = 1
               /\ \A c \in inserted : c.is_default = TRUE => c.name = "General"]_vars

\* C18: when lazy provisioning runs of one identity have both read an empty
\* category set, the insert that reaches storage first stores the complete
\* starter set with its one default category, and an insert that finds the
\* default of the identity in storage is rejected as a whole by the unique
\* index: it stores no row.
C18_LosingBatchRejected ==
  [][\A u \in users :
       (createDefaultCategories(u) /\ last'.result # TransientFailure) =>
         IF Defaults(u) # {}
         THEN /\ last'.result = UniqueViolation
              /\ categories' = categories
         ELSE /\ last'.result = NoError
              /\ OwnCategories(u) = {} =>
                   /\ Cardinality(OwnedBy(categories', u))
                        = Len(Batch(defaultCategories))
                   /\ Cardinality({c \in OwnedBy(categories', u) :
                                     c.is_default = TRUE}) = 1]_vars

\* Both runs of an identity are over, the second was rejected, and the
\* identity has one starter set with one default category.
C18_Witness ==
  /\ last.op = "createDefaultCategories"
  /\ last.result = UniqueViolation
  /\ \E u \in users :
       /\ creating[u] = 0
       /\ nextCategory[u] = 1 + Len(Batch(defaultCategories))
       /\ Cardinality(OwnCategories(u)) = Len(Batch(defaultCategories))
       /\ Cardinality(Defaults(u)) = 1
       /\ \A v \in users \ {u} : OwnCategories(v) = {}

\* C19: when an owner's insertion of an expense referencing category C and the
\* same owner's deletion of C are in flight together, storage runs them one
\* after the other (the row lock of the delete waits for the key-share lock of
\* the insert, or the insert waits and then finds no row).  For the order in
\* which the insertion is accepted first: after the deletion the new expense
\* exists and references an existing category.
C19_InsertSurvivesDelete ==
  [][(/\ last.op = "addExpense"
      /\ last.result = NoError
      /\ last'.op = "deleteCategory"
      /\ \E e \in expenses : \E c \in categories :
           /\ e.id = <<nextExpense - 1>>
           /\ c.id = e.category_id
           /\ c.user_id = e.user_id
           /\ c.id \in last'.removed)
     => \E e \in expenses' :
          /\ e.id = <<nextExpense - 1>>
          /\ \E c \in categories' : c.id = e.category_id]_vars

\* The operations the hooks give to the components.
HookOps == {"addCategory", "updateCategory", "deleteCategory",
            "clearCategoryExpenses", "addExpense", "updateExpense",
            "deleteExpense", "updateProfile"}

\* authorization-denied, default-category-protected, constraint-violation and
\* not-found; a transient failure is not one of them.
DomainErrors == {RlsViolation, ProtectedDefault, CheckViolation,
                 UniqueViolation, ForeignKeyViolation, NotFound}

\* C20: a hook operation whose request ended in a domain error has reported
\* the failure to its caller (the promise it returned was rejected).  Each
\* operation is one request, so none is retried.
C20_DomainErrorReported ==
  (last.op \in HookOps /\ last.result \in DomainErrors) => last.thrown

\* C21: a hook operation whose storage request failed leaves the local
\* category list and the local expense list exactly as they were; so a step
\* of a hook operation that changes a local list is one whose request
\* returned successfully.
C21_LocalListsOnFailure ==
  [][(last'.op \in HookOps /\ last'.result # NoError)
       => /\ local'.categories = local.categories
          /\ local'.expenses = local.expenses]_vars

\* A category deletion of the session failed and the category is still in the
\* local list, next to the default.
C21_Witness ==
  /\ last.op = "deleteCategory"
  /\ last.result # NoError
  /\ local.handler = "handleDeleteCategory"
  /\ local.failed
  /\ Len(local.categories) >= 2

\* The App handlers that add, update or delete a category or an expense.
AppOps == {"handleAddCategory", "handleUpdateCategory", "handleDeleteCategory",
           "handleAddExpense", "handleUpdateExpense", "handleDeleteExpense"}

\* The local lists hold exactly the rows of the session's user in storage,
\* each once.
InSync ==
  /\ Range(local.categories) = {c \in categories : c.user_id = local.user}
  /\ Len(local.categories) = Cardinality(Range(local.categories))
  /\ Range(local.expenses)
       = {ExpenseData(e) : e \in {x \in expenses : x.user_id = local.user}}
  /\ Len(local.expenses) = Cardinality(Range(local.expenses))

\* C22: for a single client, once an App handler that adds, updates or
\* deletes a category (with its refetch of the expenses) or an expense has
\* returned and none of its requests failed, the local category list and the
\* local expense list hold exactly the rows storage holds for the user.
C22_LocalListsInSync ==
  (local.handler \in AppOps /\ ~local.awaiting /\ ~local.failed) => InSync

\* C23: starting from a local category list with pairwise distinct colors, no
\* call of onAddCategory or onUpdateCategory made by the category manager
\* passes a color that another category of the list has at the call.
C23_PassedColorUnused ==
  \A i \in 1..Len(manager.passed) :
    manager.passed[i].color \notin manager.passed[i].others

\* The sum of the amounts of a set of expenses.
RECURSIVE SumOf(_)
SumOf(S) ==
  IF S = {} THEN 0
  ELSE LET e == CHOOSE x \in S : TRUE IN e.amount + SumOf(S \ {e})

\* C24: the monthly totals of the line chart have one entry per distinct
\* calendar month of the expense list, each the sum of the amounts of the
\* expenses of that month, in ascending order of the month, and they add up
\* to the sum of all amounts.
C24_MonthlyTotals ==
  \A k \in 1..Len(chart.rendered) :
    chart.rendered[k].component = "LineChart" =>
      LET data == chart.rendered[k].monthlyData
          given == Range(chart.expenses)
      IN  /\ {data[i].month : i \in 1..Len(data)} = {Month(e.date) : e \in given}
          /\ Len(data) = Cardinality({Month(e.date) : e \in given})
          /\ \A i \in 1..Len(data) :
               data[i].amount = SumOf({e \in given : Month(e.date) = data[i].month})
          /\ \A i, j \in 1..Len(data) :
               i < j => MonthLess(data[i].month, data[j].month)
          /\ SumOf({[amount |-> data[i].amount, month |-> data[i].month] :
                      i \in 1..Len(data)}) = SumOf(given)

\* The line chart of expenses of 10 in one month and of 20 and 30 in the
\* next, given in another order: the totals are 10 and 50.
C24_Witness ==
  /\ Len(chart.expenses) = 3
  /\ Month(chart.expenses[1].date) = <<2025, 6>>
  /\ Month(chart.expenses[2].date) = <<2025, 5>>
  /\ chart.rendered = <<[component   |-> "LineChart",
                         monthlyData |-> <<[month |-> <<2025, 5>>, amount |-> 10000],
                                           [month |-> <<2025, 6>>, amount |-> 50000]>>]>>

\* What C25 asks of one data set of the pie chart, given the filtered
\* expenses it was computed from.
PieDataOk(set, filtered) ==
  set.data # <<>> =>
    /\ \A i \in 1..Len(set.data) :
         /\ set.data[i].category \in Range(chart.categories)
         /\ set.data[i].amount
              = SumOf({e \in filtered : e.category_id = set.data[i].category.id})
         /\ set.data[i].amount > 0
         /\ set.data[i].percentage.den = set.data[1].percentage.den
         /\ set.data[i].percentage.den > 0
    /\ \A i, j \in 1..Len(set.data) :
         i < j => /\ set.data[i].amount >= set.data[j].amount
                  /\ set.data[i].category # set.data[j].category
    /\ SumOf({[amount |-> set.data[i].percentage.num, place |-> i] :
                i \in 1..Len(set.data)})
         = 100 * set.data[1].percentage.den

C26_RecentExpenses ==
  \A k \in 1..Len(chart.rendered) :
    chart.rendered[k].component = "App" =>
      LET given == chart.rendered[k].given
          recent == chart.rendered[k].recentExpenses
      IN  /\ Len(recent) = Min(5, Len(given))
          /\ Range(recent) \subseteq Range(given)
          /\ Cardinality(Range(recent)) = Len(recent)
          /\ \A i, j \in 1..Len(recent) :
               i < j => ~DateLess(recent[i].date, recent[j].date)
          /\ \A x \in Range(given) \ Range(recent) : \A y \in Range(recent) :
               ~DateLess(y.date, x.date)

\* Six expenses were given with the oldest first and the newest last; the
\* five shown start with the newest and leave the oldest out.
C26_Witness ==
  /\ Len(chart.rendered) = 1
  /\ chart.rendered[1].component = "App"
  /\ Len(chart.rendered[1].given) = 6
  /\ chart.rendered[1].given[1].date = <<2024, 12, 31>>
  /\ chart.rendered[1].given[6].date = <<2025, 6, 12>>
  /\ Len(chart.rendered[1].recentExpenses) = 5
  /\ chart.rendered[1].recentExpenses[1].date = <<2025, 6, 12>>
  /\ chart.rendered[1].given[1] \notin Range(chart.rendered[1].recentExpenses)

\* The month filters the summary offers: none, and the months of the local
\* expenses.
SummaryMonths ==
  {NoMonth} \cup {Month(local.expenses[i].date) : i \in 1..Len(local.expenses)}

\* What the summary shows for a month filter adds up: the group totals sum to
\* the displayed total and every filtered expense is in exactly one group.
SummaryAddsUp(selectedMonth) ==
  LET filtered == filteredExpenses(local.expenses, selectedMonth)
      groups   == expensesByCategory(filtered, local.categories)
  IN  /\ SumOf({[category |-> g.category, amount |-> g.total] : g \in groups}) = totalAmount(filtered)
      /\ \A i \in 1..Len(filtered) :
           Cardinality({g \in groups :
              \E j \in 1..Len(g.expenses) : g.expenses[j] = filtered[i]}) = 1

\* C27: in every local state the client reaches through category and expense
\* operations, for every month filter of the expense summary the per-category
\* totals add up to the displayed total amount and every filtered expense
\* appears in exactly one category group.
C27_SummaryAddsUp ==
  \A selectedMonth \in SummaryMonths : SummaryAddsUp(selectedMonth)

\* C28: addCategory and updateCategory never change which category is the
\* default: addCategory stores nothing but one new category of the caller
\* with is_default = false, and updateCategory changes at most the name and
\* the color of the one targeted category, which the caller owns, and leaves
\* every is_default flag as it was.
C28_DefaultFlagsKept ==
  [][/\ \A u \in Users, d \in NewCategories :
          (last'.op = "addCategory" /\ addCategory(u, d)) =>
            /\ categories \subseteq categories'
            /\ Cardinality(categories' \ categories) <= 1
            /\ \A c \in categories' \ categories :
                 c.is_default = FALSE /\ c.user_id = u
     /\ \A u \in Users, id \in CategoryIds, d \in CategoryUpdates :
          (last'.op = "updateCategory" /\ updateCategory(u, id, d)) =>
            /\ {c.id : c \in categories'} = {c.id : c \in categories}
            /\ Cardinality(categories') = Cardinality(categories)
            /\ \A c \in categories : \A n \in categories' :
                 n.id = c.id =>
                   /\ n.is_default = c.is_default
                   /\ n.user_id = c.user_id
                   /\ n.icon = c.icon
                   /\ n # c => (c.id = id /\ c.user_id = u)]_vars

\* One user has added a category, stored as not the default, and another has
\* renamed and recolored the default category, which is still the default
\* next to an untouched category.
C28_Witness ==
  /\ last.op = "updateCategory" /\ last.result = NoError
  /\ \E a \in categories, c \in categories, o \in categories :
       /\ a.name = "Travel" /\ a.is_default = FALSE
       /\ c.name = "Misc" /\ c.color = "#DC2626" /\ c.is_default = TRUE
       /\ c.user_id # a.user_id
       /\ o.user_id = c.user_id /\ o.name = "Food & Dining" /\ o.color = "#EF4444"

\* C29: clearCategoryExpenses(C) removes from storage exactly the expenses of
\* the user that reference C and nothing else: C and every other category
\* remain, every expense that references another category is unchanged, and
\* a clear that fails removes nothing.
C29_ClearRemovesExactly ==
  [][\A id \in CategoryIds :
       (last'.op = "clearCategoryExpenses" /\ handleClearCategory(id)) =>
         /\ categories' = categories
         /\ expenses' = IF last'.result = NoError
                        THEN {e \in expenses :
                                ~(e.category_id = id /\ e.user_id = local.user)}
                        ELSE expenses]_vars

\* A clear has just removed one of the two expenses the client lists (its
\* refetch has not answered yet): the expense of another category is still
\* stored, and so is every category the list references.
C29_Witness ==
  /\ last.op = "clearCategoryExpenses" /\ last.result = NoError
  /\ local.handler = "handleClearCategory" /\ local.awaiting
  /\ Len(local.expenses) = 2
  /\ local.expenses[1].category_id # local.expenses[2].category_id
  /\ Cardinality(expenses) = 1
  /\ \E i \in 1..2 : \E e \in expenses : ExpenseData(e) = local.expenses[i]
  /\ \A i \in 1..2 : \E c \in categories : c.id = local.expenses[i].category_id

\* C30: once the user is signed in, the loading flag of the categories and
\* the loading flag of the expenses both become false, whether the initial
\* fetches (and the creation of the starter categories) succeed or fail, so
\* the App leaves its loading screen.
C30_LoadingEnds ==
  (local.user # NoUser) ~> (~local.categoriesLoading /\ ~local.expensesLoading)

\* The loading screen was left although the creation of the starter
\* categories failed: both flags are false and the category list is empty.
C30_Witness ==
  /\ local.user # NoUser
  /\ ~local.categoriesLoading /\ ~local.expensesLoading
  /\ last.op = "createDefaultCategories" /\ last.result # NoError
  /\ local.categories = <<>>

====
